---- MODULE Spec2Model ----
(***************************************************************************)
(* Model of the Ask orchestrator (AskService) of the Glass overlay:        *)
(* sendMessage, _processStream, closeAskWindow and setVoiceDraft, with     *)
(* every await of sendMessage as a suspension point at which other calls   *)
(* may interleave.                                                         *)
(*                                                                         *)
(* Text is a sequence of one-character strings.  The text of a token that  *)
(* request r's stream delivers is rewritten to r's id (Tag), the text of   *)
(* its completed-response snapshot to -r, so that the origin of whatever   *)
(* is in currentResponse can be read off the state.                        *)
(*                                                                         *)
(* sent holds what the last step sent: state broadcasts, stream-error      *)
(* events, visibility requests, provider requests, repository writes and,  *)
(* when a sendMessage call returns, its result with the call's locals.     *)
(* input holds what the last step was given by the environment.            *)
(***************************************************************************)
EXTENDS Integers, Sequences, FiniteSets, TLC

\* ------------------------------------------------------------------ bounds
\* Number of sendMessage calls in one run.
MaxReq == 2
\* Number of chunks one response stream delivers before it ends.
MaxReads == 1

Reqs == 1..MaxReq
\* The time, in milliseconds, up to which the clock of the notifications runs.
MaxClock == 401
\* Number of toggleAllWindowsVisibility calls that overlap in one run.
MaxCalls == 3
Calls == 1..MaxCalls

VARIABLES
    state,            \* AskService.state
    abortController,  \* AskService.abortController: 0 is null, r the controller made by call r
    rq,               \* per sendMessage call: its locals and what it has done
    pc,               \* per sendMessage call: the await it is suspended at
    winAvail,         \* getWindowPool()?.get('ask') exists and is not destroyed
    now,              \* Date.now()
    input,            \* what the last step was given: the chunk a read resolved
                      \* with, or the message of the error an await rejected with
    sent,             \* what the last step sent (webContents.send, internalBridge.emit)
    observed,         \* the last state snapshot the ask window received
    ws,               \* createSTT: the transcription socket (readyState, handlers)
    promise,          \* createSTT: the promise it returns
    registered,       \* Electron's globalShortcut: accelerator and callback pairs
    allWindowVisibility, \* ShortcutsService.allWindowVisibility
    headerState,      \* header.currentHeaderState
    keybinds,         \* shortcutsRepository: the stored toggleVisibility accelerator
    toggles,          \* per toggleAllWindowsVisibility call: the await it is suspended at
    pendingNotifications, \* WindowNotificationManager.pendingNotifications: event to timer id
    timers            \* the timers setTimeout has scheduled and nothing has cleared or run

\* The variables of AskService, of the transcription session and of ShortcutsService.
askVars == <<state, abortController, rq, pc, winAvail, now, observed>>
sttVars == <<ws, promise>>
shortcutVars == <<registered, allWindowVisibility, headerState, keybinds>>
\* What a step of AskService leaves alone.
notifyVars == <<pendingNotifications, timers>>
elsewhere == <<sttVars, shortcutVars, toggles, notifyVars>>

vars == <<state, abortController, rq, pc, winAvail, now, input, sent, observed,
          ws, promise, registered, allWindowVisibility, headerState, keybinds,
          toggles, pendingNotifications, timers>>

\* ------------------------------------------------------------------ text
UpperChars == <<"A","B","C","D","E","F","G","H","I","J","K","L","M",
                "N","O","P","Q","R","S","T","U","V","W","X","Y","Z">>
LowerChars == <<"a","b","c","d","e","f","g","h","i","j","k","l","m",
                "n","o","p","q","r","s","t","u","v","w","x","y","z">>

\* String.prototype.toLowerCase, one character
LowerChar(c) ==
    IF \E i \in 1..Len(UpperChars) : UpperChars[i] = c
    THEN LowerChars[CHOOSE i \in 1..Len(UpperChars) : UpperChars[i] = c]
    ELSE c

\* String.prototype.toLowerCase
ToLowerCase(s) == [i \in 1..Len(s) |-> LowerChar(s[i])]

\* String.prototype.includes
Includes(s, k) ==
    \E i \in 0..(Len(s) - Len(k)) : SubSeq(s, i + 1, i + Len(k)) = k

\* String.prototype.trim (the only white space of the model is the blank)
RECURSIVE TrimLeft(_)
TrimLeft(s) == IF s # <<>> /\ Head(s) = " " THEN TrimLeft(Tail(s)) ELSE s
RECURSIVE TrimRight(_)
TrimRight(s) ==
    IF s # <<>> /\ s[Len(s)] = " " THEN TrimRight(SubSeq(s, 1, Len(s) - 1)) ELSE s
Trim(s) == TrimRight(TrimLeft(s))

\* The texts a caller passes as userPrompt or as a voice transcript.
Texts == { <<>>, <<" ">>, <<" ","h","i"," ">> }
Speakers == { "" }

ScreenContextLabel ==
    <<"[","S","c","r","e","e","n"," ","c","o","n","t","e","x","t","]">>

\* ------------------------------------------------------------------ state
VOICE_DRAFT_MAX_AGE_MS == 600000

InitialState ==
    [ isVisible           |-> FALSE,
      isLoading           |-> FALSE,
      isStreaming         |-> FALSE,
      currentQuestion     |-> <<>>,
      currentResponse     |-> <<>>,
      showTextInput       |-> TRUE,
      voiceDraft          |-> <<>>,
      voiceSpeaker        |-> "",
      voiceDraftTimestamp |-> 0 ]

\* The locals of one sendMessage call.  A local is reset after its last use, and
\* all of them when the call returns, except the signal, which its controller keeps.
InitialRequest ==
    [ effectivePrompt |-> <<>>,   \* effectivePrompt, used last in the test before saving it
      aborted         |-> FALSE,  \* signal.aborted
      reason          |-> "",     \* signal.reason
      screenshot      |-> FALSE,  \* screenshotBase64 is non-null, used last in the
                                  \* condition of the retry
      calls           |-> 0,      \* streamChat calls made
      listener        |-> FALSE,  \* an abort listener that cancels the reader is registered
      cancelled       |-> FALSE,  \* reader.cancel() was called while the reader was read
      reads           |-> 0,      \* chunks read
      fullResponse    |-> <<>>,   \* fullResponse of _processStream
      completedText   |-> <<>>,   \* completedResponseText of _processStream
      saves           |-> 0 ]     \* addAiMessage calls with role 'assistant'

\* ------------------------------------------------------------------ inputs
NoInput == [kind |-> "none"]
Rejected(message) == [kind |-> "rejected", message |-> message]
ChunkRead(chunk) == [kind |-> "chunk", chunk |-> chunk]
\* setVoiceDraft was called with speaker and text
Draft(speaker, text) == [kind |-> "draft", speaker |-> speaker, text |-> text]
\* sendMessage was called with userPrompt
Prompt(userPrompt) == [kind |-> "prompt", userPrompt |-> userPrompt]
\* getCurrentModelInfo resolved with no model info, or with one that has no apiKey
NoModelInfo == [kind |-> "noModelInfo"]

\* new WebSocket(wsUrl, { headers }) with the handlers createSTT installs.
InitialSocket == [readyState |-> "CONNECTING", handlers |-> TRUE]

\* A toggleAllWindowsVisibility call that was not made yet; its locals get
\* their values when it is.
NotCalled == [pc |-> "new", targetVisibility |-> FALSE, registerOnlyToggleVisibility |-> FALSE]

\* shortcutsRepository.getAllKeybinds() gives no keybinds.
NoKeybinds == ""

Init ==
    /\ state = InitialState
    /\ abortController = 0
    /\ rq = [r \in Reqs |-> InitialRequest]
    /\ pc = [r \in Reqs |-> "new"]
    /\ winAvail = TRUE
    /\ now = 1
    /\ input = NoInput
    /\ sent = <<>>
    /\ observed = InitialState
    /\ ws = InitialSocket
    /\ promise = "pending"
    /\ registered = {}
    /\ allWindowVisibility = TRUE
    /\ headerState = "main"
    /\ keybinds = NoKeybinds
    /\ toggles = [c \in Calls |-> NotCalled]
    /\ pendingNotifications = {}
    /\ timers = {}

\* ------------------------------------------------------------------ outputs
\* _broadcastState: the whole state goes to the ask window, if there is one.
BroadcastState(st, by) ==
    IF winAvail THEN << [ch |-> "ask:stateUpdate", by |-> by, state |-> st] >> ELSE <<>>

\* askWin.webContents.send('ask-response-stream-error', { error })
StreamErrorEvent(message, by) ==
    IF winAvail THEN << [ch |-> "ask-response-stream-error", by |-> by, error |-> message] >>
    ELSE <<>>

\* internalBridge.emit('window:requestVisibility', { name: 'ask', visible })
RequestVisibility(visible, by) ==
    << [ch |-> "window:requestVisibility", by |-> by, visible |-> visible] >>

\* streamingLLM.streamChat(messages)
StreamChat(messages, by) ==
    << [ch |-> "streamChat", by |-> by, messages |-> messages] >>

\* askRepository.addAiMessage({ sessionId, role, content, ... })
AddAiMessage(role, content, by) ==
    << [ch |-> "addAiMessage", by |-> by, role |-> role, content |-> content] >>

\* sendMessage returns; call is the call's locals as they were then.
Return(result, call, by) ==
    << [ch |-> "return", by |-> by, result |-> result, call |-> call] >>

Channel(out, ch) == SelectSeq(out, LAMBDA m : m.ch = ch)
StateUpdates(out) == Channel(out, "ask:stateUpdate")
StreamErrors(out) == Channel(out, "ask-response-stream-error")
VisibilityRequests(out) == Channel(out, "window:requestVisibility")
ProviderRequests(out) == Channel(out, "streamChat")
RepositoryWrites(out) == Channel(out, "addAiMessage")
Returns(out) == Channel(out, "return")

\* The step sends `out`; the ask window keeps the last snapshot it received.
Emit(out) ==
    /\ sent' = out
    /\ observed' = IF StateUpdates(out) = <<>> THEN observed
                   ELSE StateUpdates(out)[Len(StateUpdates(out))].state

\* The locals of a call that returned.
Returned(req) ==
    [InitialRequest EXCEPT !.aborted = req.aborted, !.reason = req.reason]

\* ------------------------------------------------------------------ voice draft
\* A draft stored in a state that is built anew.
DraftStateFromDefaults(st, speaker, draft, t) ==
    [InitialState EXCEPT !.voiceDraft = draft,
                         !.voiceSpeaker = IF speaker = "" THEN "Me" ELSE speaker,
                         !.voiceDraftTimestamp = t]

\* The state setVoiceDraft installs.
DraftState(st, speaker, draft, t) ==
    [st EXCEPT !.voiceDraft = draft,
               !.voiceSpeaker = IF speaker = "" THEN "Me" ELSE speaker,
               !.voiceDraftTimestamp = t]

\* setVoiceDraft(speaker, text)
SetVoiceDraft(speaker, text) ==
    LET draft == Trim(text) IN
    /\ IF draft = <<>>
       THEN /\ sent' = <<>>
            /\ UNCHANGED <<state, observed>>
       ELSE /\ state' = DraftState(state, speaker, draft, now)
            /\ Emit(BroadcastState(state', 0))
    /\ input' = Draft(speaker, text)
    /\ UNCHANGED <<abortController, rq, pc, winAvail, now, elsewhere>>

\* A resolution that takes a draft to be stale two milliseconds early.
ResolveEffectivePromptEarly(st, userPrompt, t) ==
    LET typedPrompt == Trim(userPrompt)
        voiceDraft  == Trim(st.voiceDraft)
        draftAgeMs  == t - st.voiceDraftTimestamp
    IN  IF typedPrompt # <<>> THEN typedPrompt
        ELSE IF voiceDraft # <<>> /\ draftAgeMs + 2 <= VOICE_DRAFT_MAX_AGE_MS THEN voiceDraft
        ELSE <<>>

\* _resolveEffectivePrompt(userPrompt)
ResolveEffectivePrompt(st, userPrompt, t) ==
    LET typedPrompt == Trim(userPrompt)
        voiceDraft  == Trim(st.voiceDraft)
        draftAgeMs  == t - st.voiceDraftTimestamp
    IN  IF typedPrompt # <<>> THEN typedPrompt
        ELSE IF voiceDraft # <<>> /\ draftAgeMs <= VOICE_DRAFT_MAX_AGE_MS THEN voiceDraft
        ELSE <<>>

\* ------------------------------------------------------------------ cancellation
\* AbortController.abort(reason) on the controller of call c: the signal becomes
\* aborted and the 'abort' listeners registered so far run (reader.cancel).
\* Aborting an aborted signal, or no controller, does nothing.
\* An abort() that leaves the signal as it was.
AbortLeavesSignal(reqs, c, reason) == reqs

Abort(reqs, c, reason) ==
    IF c = 0 \/ reqs[c].aborted THEN reqs
    ELSE [reqs EXCEPT ![c].aborted = TRUE,
                      ![c].reason = reason,
                      ![c].cancelled = reqs[c].listener /\ pc[c] = "read"]

\* A close that resets every field, the voice draft included.
ClosedStateDropsDraft(st) == InitialState

\* The state closeAskWindow installs.
ClosedState(st) ==
    [ isVisible           |-> FALSE,
      isLoading           |-> FALSE,
      isStreaming         |-> FALSE,
      currentQuestion     |-> <<>>,
      currentResponse     |-> <<>>,
      showTextInput       |-> TRUE,
      voiceDraft          |-> st.voiceDraft,
      voiceSpeaker        |-> st.voiceSpeaker,
      voiceDraftTimestamp |-> st.voiceDraftTimestamp ]

\* closeAskWindow()
CloseAskWindow ==
    /\ rq' = Abort(rq, abortController, "Window closed by user")
    /\ abortController' = 0
    /\ state' = ClosedState(state)
    /\ Emit(BroadcastState(state', 0) \o RequestVisibility(FALSE, 0))
    /\ input' = NoInput
    /\ UNCHANGED <<pc, winAvail, now, elsewhere>>

\* The ask window is destroyed (it is not created again within a run); what it
\* had received is gone with it.
WindowDestroyed ==
    /\ winAvail
    /\ winAvail' = FALSE
    /\ input' = NoInput
    /\ sent' = <<>>
    /\ observed' = InitialState
    /\ UNCHANGED <<state, abortController, rq, pc, now, elsewhere>>

\* ------------------------------------------------------------------ sendMessage
\* userRequest: the text of the request that goes to the provider.
GenericRequest ==
    << "Analyze the current screen and provide the most relevant help right now." >>
UserRequest(effectivePrompt) ==
    IF effectivePrompt # <<>> THEN effectivePrompt ELSE GenericRequest

\* The state sendMessage installs before its first await.
LoadingState(st, effectivePrompt) ==
    [st EXCEPT !.isLoading = TRUE,
               !.isStreaming = FALSE,
               !.currentQuestion =
                   IF effectivePrompt # <<>> THEN effectivePrompt ELSE ScreenContextLabel,
               !.currentResponse = <<>>,
               !.showTextInput = FALSE]

\* The body of sendMessage(userPrompt), up to its first await (getOrCreateActive)
StartRequest(r, userPrompt) ==
    LET effectivePrompt == ResolveEffectivePrompt(state, userPrompt, now) IN
    /\ pc[r] = "new"
    /\ \A q \in Reqs : q < r => pc[q] # "new"
    /\ state' = LoadingState(state, effectivePrompt)
    /\ rq' = [Abort(rq, abortController, "New request received.")
                EXCEPT ![r].effectivePrompt = effectivePrompt]
    /\ abortController' = r
    /\ pc' = [pc EXCEPT ![r] = "session"]
    /\ Emit(RequestVisibility(TRUE, r) \o BroadcastState(state', r))
    /\ UNCHANGED <<winAvail, now, elsewhere>>

\* sendMessage(userPrompt) is called
SendMessage(r, userPrompt) ==
    /\ StartRequest(r, userPrompt)
    /\ input' = Prompt(userPrompt)

\* ------------------------------------------------------------------ toggleAskButton
\* toggleAskButton(inputScreenOnly) was called, askWindow.isVisible() being `visible`
Toggled(inputScreenOnly, visible) ==
    [kind |-> "toggle", visible |-> visible, inputScreenOnly |-> inputScreenOnly]

\* A screen-only toggle that sends only when the window is hidden.
ScreenOnlySendsWhenHidden(st, inputScreenOnly, visible) == inputScreenOnly /\ ~visible

\* The condition under which toggleAskButton calls sendMessage('', []).
ScreenOnlySends(st, inputScreenOnly, visible) ==
    inputScreenOnly /\ (~visible \/ st.showTextInput)

\* Content that counts only a request that is loading.
HasContentLoadingOnly(st) == st.isLoading

\* hasContent
HasContent(st) == st.isLoading \/ st.isStreaming \/ Len(st.currentResponse) > 0

\* toggleAskButton(inputScreenOnly); the window's visibility is the window
\* manager's, given to the call.
ToggleAskButton(inputScreenOnly, visible) ==
    /\ visible => winAvail
    /\ input' = Toggled(inputScreenOnly, visible)
    /\ IF ScreenOnlySends(state, inputScreenOnly, visible)
       THEN \E r \in Reqs : StartRequest(r, <<>>)
       ELSE /\ IF visible /\ HasContent(state)
               THEN /\ state' = [state EXCEPT !.showTextInput = ~@]
                    /\ Emit(BroadcastState(state', 0))
               ELSE IF visible
               THEN /\ state' = [state EXCEPT !.isVisible = FALSE]
                    /\ Emit(RequestVisibility(FALSE, 0))
               ELSE /\ state' = [state EXCEPT !.isVisible = TRUE, !.showTextInput = TRUE]
                    /\ Emit(RequestVisibility(TRUE, 0) \o BroadcastState(state', 0))
            /\ UNCHANGED <<abortController, rq, pc, winAvail, now, elsewhere>>


\* ------------------------------------------------------------------ errors
\* Messages of the errors streamChat rejects with (createApiError, fetch).
ProviderErrors ==
    { <<"n","o"," ","v","i","s","i","o","n">>,
      <<"B","a","d"," ","I","m","a","g","e">>,
      <<"m","u","l","t","i","m","o","d","a","l">>,
      <<"U","N","S","U","P","P","O","R","T","E","D">>,
      <<"i","m","a","g","e","_","u","r","l">>,
      <<"H","T","T","P"," ","4","0","0">>,
      <<"I","n","v","a","l","i","d">>,
      <<"N","o","t"," ","S","u","p","p","o","r","t","e","d">>,
      <<"H","T","T","P"," ","4","0","1">>,
      <<"t","i","m","e","o","u","t">>,
      <<>> }

\* Messages that are never searched are kept whole.
ConfigError == << "AI model or API key not configured." >>
UnknownError == << "Unknown error occurred" >>
UnknownStreamingError == << "Unknown streaming error" >>
ResponseFailed == << "Response failed" >>
RepositoryError == << "database is locked" >>
ReadError == << "terminated" >>

\* _isMultimodalError(error)
IsMultimodalError(message) ==
    LET errorMessage == ToLowerCase(message) IN
    \/ Includes(errorMessage, <<"v","i","s","i","o","n">>)
    \/ Includes(errorMessage, <<"i","m","a","g","e">>)
    \/ Includes(errorMessage, <<"m","u","l","t","i","m","o","d","a","l">>)
    \/ Includes(errorMessage, <<"u","n","s","u","p","p","o","r","t","e","d">>)
    \/ Includes(errorMessage, <<"i","m","a","g","e","_","u","r","l">>)
    \/ Includes(errorMessage, <<"4","0","0">>)
    \/ Includes(errorMessage, <<"i","n","v","a","l","i","d">>)
    \/ Includes(errorMessage, <<"n","o","t"," ","s","u","p","p","o","r","t","e","d">>)

\* A retry condition that does not look at whether a screenshot was attached.
ShouldRetryWithoutImage(screenshot, message) == IsMultimodalError(message)

\* The condition of the text-only retry (sendMessage's inner catch).
ShouldRetry(screenshot, message) == screenshot /\ IsMultimodalError(message)

\* The state sendMessage's outer catch installs.
ErrorState(st) ==
    [st EXCEPT !.isLoading = FALSE, !.isStreaming = FALSE, !.showTextInput = TRUE]

\* sendMessage's outer catch: reset, broadcast, report, return { success: false }.
ErrorPath(r, message) ==
    /\ state' = ErrorState(state)
    /\ Emit(BroadcastState(state', r)
            \o StreamErrorEvent(IF message = <<>> THEN UnknownError ELSE message, r)
            \o Return("error", rq[r], r))
    /\ rq' = [rq EXCEPT ![r] = Returned(@)]
    /\ pc' = [pc EXCEPT ![r] = "done"]

\* ------------------------------------------------------------------ awaits before the stream
\* The step goes on to the await at `next`, sending `out`.
Goto(r, next, req, out) ==
    /\ pc' = [pc EXCEPT ![r] = next]
    /\ rq' = [rq EXCEPT ![r] = req]
    /\ sent' = out
    /\ UNCHANGED <<state, observed>>

\* await sessionRepository.getOrCreateActive('ask'); if there is a prompt,
\* addAiMessage is called with it.
Session(r) ==
    /\ pc[r] = "session"
    /\ \/ /\ input' = NoInput
          /\ IF rq[r].effectivePrompt # <<>>
             THEN Goto(r, "saveUser", [rq[r] EXCEPT !.effectivePrompt = <<>>],
                       AddAiMessage("user", rq[r].effectivePrompt, r))
             ELSE Goto(r, "model", rq[r], <<>>)
       \/ /\ input' = Rejected(RepositoryError)
          /\ ErrorPath(r, RepositoryError)
    /\ UNCHANGED <<abortController, winAvail, now, elsewhere>>

\* await askRepository.addAiMessage({ sessionId, role: 'user', content: effectivePrompt })
SaveUser(r) ==
    /\ pc[r] = "saveUser"
    /\ \/ /\ input' = NoInput
          /\ Goto(r, "model", rq[r], <<>>)
       \/ /\ input' = Rejected(RepositoryError)
          /\ ErrorPath(r, RepositoryError)
    /\ UNCHANGED <<abortController, winAvail, now, elsewhere>>

\* A resolution whose result is not looked at.
ModelInfoUnchecked(r) ==
    /\ pc[r] = "model"
    /\ \E configured \in BOOLEAN :
         /\ Goto(r, "capture", rq[r], <<>>)
         /\ input' = IF configured THEN NoInput ELSE NoModelInfo
    /\ UNCHANGED <<abortController, winAvail, now, elsewhere>>

\* await modelStateService.getCurrentModelInfo('llm'), and the check that follows
ModelInfo(r) ==
    /\ pc[r] = "model"
    /\ \E configured \in BOOLEAN :
         IF configured
         THEN /\ Goto(r, "capture", rq[r], <<>>)
              /\ input' = NoInput
         ELSE /\ ErrorPath(r, ConfigError)
              /\ input' = NoModelInfo
    /\ UNCHANGED <<abortController, winAvail, now, elsewhere>>

\* await captureScreenshot({ quality: 'medium' }): it resolves also when it fails
Capture(r) ==
    /\ pc[r] = "capture"
    /\ \E success \in BOOLEAN :
         Goto(r, "settings", [rq[r] EXCEPT !.screenshot = success], <<>>)
    /\ input' = NoInput
    /\ UNCHANGED <<abortController, winAvail, now, elsewhere>>

\* messages: the system prompt, and the user request as a text part, with an
\* image_url part behind it if a screenshot was captured.
Messages(screenshot) ==
    << [role |-> "system", content |-> <<"text">>],
       [role |-> "user",
        content |-> IF screenshot THEN <<"text", "image_url">> ELSE <<"text">>] >>

\* A retry that sends the first request's messages again.
TextOnlyMessagesKeepImage(screenshot) == Messages(screenshot)

\* textOnlyMessages: the user request is a plain string.
TextOnlyMessages(screenshot) ==
    << [role |-> "system", content |-> <<"text">>],
       [role |-> "user", content |-> <<"text">>] >>

HasImagePart(messages) ==
    \E i \in 1..Len(messages) :
        \E j \in 1..Len(messages[i].content) : messages[i].content[j] = "image_url"

\* await getSelectedPresetPrompt(), getReasoningEffort(), getSettings(): none of
\* them rejects, and nothing of the orchestrator is read or written between them;
\* then streamChat(messages) is called.
Settings(r) ==
    /\ pc[r] = "settings"
    /\ Goto(r, "connect", [rq[r] EXCEPT !.calls = @ + 1],
            StreamChat(Messages(rq[r].screenshot), r))
    /\ input' = NoInput
    /\ UNCHANGED <<abortController, winAvail, now, elsewhere>>


\* ------------------------------------------------------------------ stream events
\* One line of the event stream.  data: the line starts with 'data:', is not the
\* [DONE] marker and its payload parses as JSON; the other fields are the payload's
\* type, its top-level string delta, its error.message (response.error.message for
\* 'response.failed') and its response.output_text, <<>> where absent.
Event(data, type, delta, message, outputText) ==
    [message |-> message, data |-> data, type |-> type, delta |-> delta,
     outputText |-> outputText]

EvToken == Event(TRUE, "response.output_text.delta", <<"x">>, <<>>, <<>>)
EvNoise == Event(FALSE, "", <<"x">>, <<>>, <<>>)
EvCompleted == Event(TRUE, "response.completed", <<>>, <<>>, <<" ","o","k"," ">>)
EvError == Event(TRUE, "error", <<"x">>, <<"o","v","e","r","l","o","a","d","e","d">>, <<>>)
EvFailed == Event(TRUE, "response.failed", <<>>, <<>>, <<"o","k">>)

\* The chunks a read delivers: the complete lines it makes available.
Chunks ==
    { <<EvToken>>, <<EvNoise, EvCompleted>>, <<EvToken, EvError, EvToken>>,
      <<EvCompleted, EvFailed>>, <<EvToken, EvCompleted>> }

\* Text that request r's stream delivered as tokens / as a completed snapshot.
Tag(r, text) == [i \in 1..Len(text) |-> r]
SnapshotTag(r, text) == [i \in 1..Len(text) |-> 0 - r]

\* _extractErrorFromStreamEvent
ExtractErrorFromStreamEvent(ev) ==
    IF ev.type = "error"
    THEN IF ev.message # <<>> THEN ev.message ELSE UnknownStreamingError
    ELSE IF ev.type = "response.failed"
    THEN IF ev.message # <<>> THEN ev.message ELSE ResponseFailed
    ELSE <<>>

\* _extractTokenFromStreamEvent, for a payload with a top-level string delta
ExtractTokenFromStreamEvent(ev) == ev.delta

\* _extractCompletedTextFromStreamEvent, for a string response.output_text
ExtractCompletedTextFromStreamEvent(ev) == Trim(ev.outputText)

\* An iteration that appends the line's token before it looks for an error.
ProcessLineTokenFirst(r, acc, ev) ==
    IF ~ev.data THEN acc
    ELSE LET token == Tag(r, ExtractTokenFromStreamEvent(ev))
             full == acc.fullResponse \o token
             st == [acc.st EXCEPT !.currentResponse = full]
             a1 == IF token # <<>>
                   THEN [acc EXCEPT !.fullResponse = full, !.st = st,
                                    !.out = @ \o BroadcastState(st, r)]
                   ELSE acc
             streamError == ExtractErrorFromStreamEvent(ev)
         IN  IF streamError # <<>>
             THEN [a1 EXCEPT !.thrown = TRUE, !.error = streamError]
             ELSE a1

\* One iteration of `for (const line of lines)`.  acc: fullResponse,
\* completedResponseText, this.state, what was sent, and the error thrown if any.
ProcessLine(r, acc, ev) ==
    IF ~ev.data THEN acc
    ELSE LET streamError == ExtractErrorFromStreamEvent(ev) IN
         IF streamError # <<>>
         THEN [acc EXCEPT !.thrown = TRUE, !.error = streamError]
         ELSE LET token == Tag(r, ExtractTokenFromStreamEvent(ev))
                  full == acc.fullResponse \o token
                  st == [acc.st EXCEPT !.currentResponse = full]
                  a1 == IF token # <<>>
                        THEN [acc EXCEPT !.fullResponse = full, !.st = st,
                                         !.out = @ \o BroadcastState(st, r)]
                        ELSE acc
              IN  IF a1.completedText = <<>>
                  THEN [a1 EXCEPT !.completedText =
                            SnapshotTag(r, ExtractCompletedTextFromStreamEvent(ev))]
                  ELSE a1

\* The for loop over the lines of one chunk; it ends at the first throw.
RECURSIVE ProcessLines(_, _, _)
ProcessLines(r, acc, lines) ==
    IF lines = <<>> \/ acc.thrown THEN acc
    ELSE ProcessLines(r, ProcessLine(r, acc, Head(lines)), Tail(lines))

\* A finally block that prefers the completed-response snapshot.
FinalTextSnapshotFirst(fullResponse, completedText) ==
    IF completedText # <<>> THEN completedText ELSE fullResponse

\* What the finally block makes of fullResponse.
FinalText(fullResponse, completedText) ==
    IF fullResponse = <<>> /\ completedText # <<>> THEN completedText ELSE fullResponse

\* A finally block that persists the text whether or not it is empty.
ShouldPersistAlways(fullResponse) == TRUE

\* The finally block persists the text.
ShouldPersist(fullResponse) == fullResponse # <<>>

\* The catch block of _processStream reports the error.
ShouldReport(aborted) == ~aborted

\* catch and finally of _processStream, up to the await of addAiMessage, or to the
\* return of sendMessage if nothing is persisted.  acc.thrown says whether the try
\* block threw, with acc.error the message.
Finalize(r, acc) ==
    LET report == IF acc.thrown /\ ShouldReport(rq[r].aborted)
                  THEN StreamErrorEvent(acc.error, r) ELSE <<>>
        final == FinalText(acc.fullResponse, acc.completedText)
        persist == ShouldPersist(final)
        req == [rq[r] EXCEPT !.fullResponse = final,
                             !.completedText = acc.completedText,
                             !.saves = IF persist THEN @ + 1 ELSE @]
    IN  /\ state' = [acc.st EXCEPT !.isStreaming = FALSE, !.currentResponse = final]
        /\ Emit(acc.out \o report \o BroadcastState(state', r)
                \o IF persist THEN AddAiMessage("assistant", final, r)
                   ELSE Return("success", req, r))
        /\ rq' = [rq EXCEPT ![r] = IF persist THEN req ELSE Returned(req)]
        /\ pc' = [pc EXCEPT ![r] = IF persist THEN "persist" ELSE "done"]

\* The accumulator of the read loop at a read.
Acc(r) ==
    [fullResponse |-> rq[r].fullResponse, completedText |-> rq[r].completedText,
     st |-> state, out |-> <<>>, thrown |-> FALSE, error |-> <<>>]

\* await reader.read() resolves or rejects, and the loop runs to its next await.
Read(r) ==
    /\ pc[r] = "read"
    /\ IF rq[r].cancelled
       THEN \* a cancelled reader's read resolves with done
            /\ input' = NoInput
            /\ Finalize(r, Acc(r))
       ELSE \/ \E chunk \in Chunks :
                 /\ rq[r].reads < MaxReads
                 /\ input' = ChunkRead(chunk)
                 /\ LET acc == ProcessLines(r, Acc(r), chunk) IN
                    IF acc.thrown THEN Finalize(r, acc)
                    ELSE /\ state' = acc.st
                         /\ Emit(acc.out)
                         /\ rq' = [rq EXCEPT ![r].fullResponse = acc.fullResponse,
                                             ![r].completedText = acc.completedText,
                                             ![r].reads = @ + 1]
                         /\ pc' = pc
            \/ /\ input' = NoInput
               /\ Finalize(r, Acc(r))
            \/ /\ input' = Rejected(ReadError)
               /\ Finalize(r, [Acc(r) EXCEPT !.thrown = TRUE, !.error = ReadError])
    /\ UNCHANGED <<abortController, winAvail, now, elsewhere>>

\* await askRepository.addAiMessage({ sessionId, role: 'assistant', ... }) in the
\* finally block: a rejection is logged; then sendMessage returns { success: true }.
Persist(r) ==
    /\ pc[r] = "persist"
    /\ \/ input' = NoInput
       \/ input' = Rejected(RepositoryError)
    /\ pc' = [pc EXCEPT ![r] = "done"]
    /\ rq' = [rq EXCEPT ![r] = Returned(@)]
    /\ sent' = Return("success", rq[r], r)
    /\ UNCHANGED <<state, abortController, winAvail, now, observed, elsewhere>>

\* ------------------------------------------------------------------ provider calls
\* streamChat resolved: the window check, getReader, the abort listener, and
\* _processStream up to its first read.
OpenStream(r) ==
    IF ~winAvail
    THEN /\ rq' = [rq EXCEPT ![r] = Returned(@)]
         /\ pc' = [pc EXCEPT ![r] = "done"]
         /\ sent' = Return("noWindow", rq[r], r)
         /\ UNCHANGED <<state, observed>>
    ELSE /\ rq' = [rq EXCEPT ![r].listener = TRUE]
         /\ pc' = [pc EXCEPT ![r] = "read"]
         /\ state' = [state EXCEPT !.isLoading = FALSE, !.isStreaming = TRUE]
         /\ Emit(BroadcastState(state', r))

\* await streamingLLM.streamChat(messages) and what follows it without an await
Connect(r) ==
    /\ pc[r] = "connect"
    /\ \/ /\ input' = NoInput
          /\ OpenStream(r)
       \/ \E message \in ProviderErrors :
            /\ input' = Rejected(message)
            /\ IF ShouldRetry(rq[r].screenshot, message)
               THEN Goto(r, "retry", [rq[r] EXCEPT !.calls = @ + 1],
                         StreamChat(TextOnlyMessages(rq[r].screenshot), r))
               ELSE ErrorPath(r, message)
    /\ UNCHANGED <<abortController, winAvail, now, elsewhere>>

\* await streamingLLM.streamChat(textOnlyMessages) and what follows it
Retry(r) ==
    /\ pc[r] = "retry"
    /\ \/ /\ input' = NoInput
          /\ OpenStream(r)
       \/ \E message \in ProviderErrors :
            /\ input' = Rejected(message)
            /\ ErrorPath(r, message)
    /\ UNCHANGED <<abortController, winAvail, now, elsewhere>>

\* ------------------------------------------------------------------ specification
Next ==
    \/ \E r \in Reqs, userPrompt \in Texts : SendMessage(r, userPrompt)
    \/ \E r \in Reqs : Session(r)
    \/ \E r \in Reqs : SaveUser(r)
    \/ \E r \in Reqs : ModelInfo(r)
    \/ \E r \in Reqs : Capture(r)
    \/ \E r \in Reqs : Settings(r)
    \/ \E r \in Reqs : Connect(r)
    \/ \E r \in Reqs : Retry(r)
    \/ \E r \in Reqs : Read(r)
    \/ \E r \in Reqs : Persist(r)
    \/ CloseAskWindow
    \/ WindowDestroyed

Spec == Init /\ [][Next]_vars

\* The same with voice drafts arriving from the transcription at any time.
NextVoice ==
    \/ Next
    \/ \E speaker \in Speakers, text \in Texts : SetVoiceDraft(speaker, text)

SpecVoice == Init /\ [][NextVoice]_vars

\* ------------------------------------------------------------------ toggles
\* Requests started by the ask button and the Ask shortcut, with voice drafts
\* arriving, the ask window staying in place.
Lifecycle ==
    \/ \E r \in Reqs : Session(r)
    \/ \E r \in Reqs : SaveUser(r)
    \/ \E r \in Reqs : ModelInfo(r)
    \/ \E r \in Reqs : Capture(r)
    \/ \E r \in Reqs : Settings(r)
    \/ \E r \in Reqs : Connect(r)
    \/ \E r \in Reqs : Retry(r)
    \/ \E r \in Reqs : Read(r)
    \/ \E r \in Reqs : Persist(r)

NextToggle ==
    \/ \E inputScreenOnly \in BOOLEAN, visible \in BOOLEAN :
          ToggleAskButton(inputScreenOnly, visible)
    \/ \E speaker \in Speakers, text \in Texts : SetVoiceDraft(speaker, text)
    \/ Lifecycle

SpecToggle == Init /\ [][NextToggle]_vars

\* ------------------------------------------------------------------ prompts and time
\* Voice drafts and sendMessage calls with the clock advancing between them, up
\* to the first await of sendMessage.  The instants are around the age at which a
\* draft becomes stale.
MaxDrift == 3
Times == {1, 2} \cup {VOICE_DRAFT_MAX_AGE_MS + d : d \in 0..MaxDrift}
VoiceTexts == { <<" ">>, <<" ","y","o">> }
VoiceSpeakers == { "", "Them" }

\* Date.now() moves on.
Tick(t) ==
    /\ t > now
    /\ now' = t
    /\ input' = NoInput
    /\ sent' = <<>>
    /\ UNCHANGED <<state, abortController, rq, pc, winAvail, observed, elsewhere>>

NextPrompt ==
    \/ \E t \in Times : Tick(t)
    \/ \E speaker \in VoiceSpeakers, text \in VoiceTexts : SetVoiceDraft(speaker, text)
    \/ \E r \in Reqs, userPrompt \in Texts : SendMessage(r, userPrompt)

SpecPrompt == Init /\ [][NextPrompt]_vars


\* ------------------------------------------------------------------ provider adapter
\* JavaScript values: strings (their characters), numbers, null and undefined.
Str(chars) == [type |-> "string", chars |-> chars]
Num(v) == [kind |-> "finite", type |-> "number", v |-> v]
NaN == [kind |-> "NaN", type |-> "number", v |-> 0]
Infinity == [kind |-> "Infinity", type |-> "number", v |-> 0]
Null == [type |-> "null"]
Undefined == [type |-> "undefined"]

\* String.prototype.startsWith
StartsWith(s, prefix) == Len(s) >= Len(prefix) /\ SubSeq(s, 1, Len(prefix)) = prefix

\* Model identifiers.
Models ==
    { Str(<<"g","p","t","-","5","-","m","i","n","i">>), Str(<<"G","P","T","-","5">>), Str(<<"G","p","t","-","5",".","1">>), Str(<<"g","p","t","-","4",".","1">>), Str(<<"g","p","t","-","4","o">>),
      Str(<<"o","-","g","p","t","-","5">>), Str(<<"g","p","t","-">>), Undefined }

\* A family test that compares the identifier as it is written.
IsGpt5ModelCaseSensitive(model) ==
    model.type = "string" /\ StartsWith(model.chars, <<"g","p","t","-","5">>)

\* isGpt5Model(model)
IsGpt5Model(model) ==
    model.type = "string" /\ StartsWith(ToLowerCase(model.chars), <<"g","p","t","-","5">>)

\* The values of the reasoning effort (REASONING_EFFORT_VALUES).
EffortNone == <<"n","o","n","e">>
EffortLow == <<"l","o","w">>
EffortMedium == <<"m","e","d","i","u","m">>
EffortHigh == <<"h","i","g","h">>
EffortXHigh == <<"x","h","i","g","h">>
REASONING_EFFORT_VALUES == {EffortNone, EffortLow, EffortMedium, EffortHigh, EffortXHigh}

\* An effort that counts as high only if it is 'high'.
ReasoningIsHighOnly(reasoningEffort) == reasoningEffort = Str(EffortHigh)

\* reasoningIsHigh of sendMessage
ReasoningIsHigh(reasoningEffort) ==
    reasoningEffort = Str(EffortHigh) \/ reasoningEffort = Str(EffortXHigh)

Max(a, b) == IF a >= b THEN a ELSE b

\* effectiveMaxTokens of sendMessage; configuredMaxTokens is Number(appSettings?.maxTokens)
EffectiveMaxTokens(model, reasoningEffort, configuredMaxTokens) ==
    LET defaultMinTokens ==
            IF IsGpt5Model(model) /\ ReasoningIsHigh(reasoningEffort) THEN 8192 ELSE 4096
    IN  IF configuredMaxTokens.kind = "finite" /\ configuredMaxTokens.v > 0
        THEN Max(configuredMaxTokens.v, defaultMinTokens)
        ELSE defaultMinTokens

\* What Number(appSettings?.maxTokens) can be.
ConfiguredMaxTokens ==
    { NaN, Infinity, Num(0 - 1), Num(0), Num(1), Num(4095), Num(4096), Num(4097),
      Num(8191), Num(8192), Num(8193), Num(100000) }

\* sendMessage computed the output-token ceiling / created the streaming LLM with it
MaxTokensInput(model, reasoningEffort, configuredMaxTokens) ==
    [kind |-> "maxTokens", model |-> model, reasoningEffort |-> reasoningEffort,
     configuredMaxTokens |-> configuredMaxTokens]
CreateStreamingLLM(maxTokens) ==
    << [ch |-> "createStreamingLLM", maxTokens |-> maxTokens] >>

\* The step of an adapter specification: a function is applied to `given`, with
\* result `out`; the orchestrator is not involved.
Apply(given, out) ==
    /\ input' = given
    /\ sent' = out
    /\ UNCHANGED <<state, abortController, rq, pc, winAvail, now, observed, elsewhere>>

\* sendMessage, lines 293-303: the ceiling for the model and the settings read
ComputeMaxTokens(model, reasoningEffort, configuredMaxTokens) ==
    Apply(MaxTokensInput(model, reasoningEffort, configuredMaxTokens),
          CreateStreamingLLM(EffectiveMaxTokens(model, reasoningEffort, configuredMaxTokens)))

NextTokens ==
    \E model \in Models, reasoningEffort \in {Str(e) : e \in REASONING_EFFORT_VALUES},
       configuredMaxTokens \in ConfiguredMaxTokens :
        ComputeMaxTokens(model, reasoningEffort, configuredMaxTokens)

SpecTokens == Init /\ [][NextTokens]_vars

\* ------------------------------------------------------------------ request bodies
\* Objects of the request bodies, as JSON.stringify writes them: a record over
\* the keys the adapter uses, a key the object does not have being undefined.
\* Spread(a, b) is { ...a, ...b }.
EmptyObject ==
    [input |-> Undefined, messages |-> Undefined, model |-> Undefined,
     temperature |-> Undefined, max_tokens |-> Undefined,
     max_completion_tokens |-> Undefined, max_output_tokens |-> Undefined,
     reasoning |-> Undefined, stream |-> Undefined]
Field(key, value) == [EmptyObject EXCEPT ![key] = value]
Has(object, key) == object[key] # Undefined
Over(a, b) == IF b # Undefined THEN b ELSE a
Spread(a, b) ==
    [input |-> Over(a.input, b.input), messages |-> Over(a.messages, b.messages),
     model |-> Over(a.model, b.model),
     temperature |-> Over(a.temperature, b.temperature),
     max_tokens |-> Over(a.max_tokens, b.max_tokens),
     max_completion_tokens |-> Over(a.max_completion_tokens, b.max_completion_tokens),
     max_output_tokens |-> Over(a.max_output_tokens, b.max_output_tokens),
     reasoning |-> Over(a.reasoning, b.reasoning), stream |-> Over(a.stream, b.stream)]

\* true, and the message lists of a request, which are named, not spelled out.
True == [type |-> "boolean", v |-> TRUE]
List(name) == [type |-> "object", name |-> name]

\* Truthiness of a value.
Truthy(v) ==
    \/ v.type = "number" /\ (v.kind = "Infinity" \/ (v.kind = "finite" /\ v.v # 0))
    \/ v.type = "string" /\ v.chars # <<>>
    \/ v.type = "boolean" /\ v.v
    \/ v.type = "object"

\* A default parameter value: it stands in for undefined only.
Default(v, d) == IF v = Undefined THEN d ELSE v

\* A token payload that does not look at forceLegacyMaxTokens.
BuildTokenPayloadByFamily(model, maxTokens, forceLegacyMaxTokens) ==
    IF ~Truthy(maxTokens) \/ maxTokens.type # "number" THEN EmptyObject
    ELSE IF IsGpt5Model(model) THEN Field("max_completion_tokens", maxTokens)
    ELSE Field("max_tokens", maxTokens)

\* buildTokenPayload(model, maxTokens, options)
BuildTokenPayload(model, maxTokens, forceLegacyMaxTokens) ==
    IF ~Truthy(maxTokens) \/ maxTokens.type # "number" THEN EmptyObject
    ELSE IF forceLegacyMaxTokens THEN Field("max_tokens", maxTokens)
    ELSE IF IsGpt5Model(model) THEN Field("max_completion_tokens", maxTokens)
    ELSE Field("max_tokens", maxTokens)

\* A normalization that lower-cases but does not trim.
NormalizeReasoningEffortUntrimmed(reasoningEffort) ==
    LET candidate == IF reasoningEffort.type = "string"
                     THEN ToLowerCase(reasoningEffort.chars) ELSE <<>>
    IN  IF candidate = <<"m","i","n","i","m","a","l">> THEN Str(EffortNone)
        ELSE IF candidate \in {<<"x","-","h","i","g","h">>, <<"x","_","h","i","g","h">>, <<"x"," ","h","i","g","h">>} THEN Str(EffortXHigh)
        ELSE IF candidate \in REASONING_EFFORT_VALUES THEN Str(candidate)
        ELSE Null

\* normalizeReasoningEffort(reasoningEffort) of the provider adapter
NormalizeReasoningEffort(reasoningEffort) ==
    LET candidate == IF reasoningEffort.type = "string"
                     THEN ToLowerCase(Trim(reasoningEffort.chars)) ELSE <<>>
    IN  IF candidate = <<"m","i","n","i","m","a","l">> THEN Str(EffortNone)
        ELSE IF candidate \in {<<"x","-","h","i","g","h">>, <<"x","_","h","i","g","h">>, <<"x"," ","h","i","g","h">>} THEN Str(EffortXHigh)
        ELSE IF candidate \in REASONING_EFFORT_VALUES THEN Str(candidate)
        ELSE Null

\* normalizeReasoningEffort(value) of the settings service
NormalizeReasoningEffortSetting(value) ==
    LET candidate == IF value.type = "string" THEN ToLowerCase(Trim(value.chars)) ELSE <<>>
    IN  IF candidate = <<"m","i","n","i","m","a","l">> THEN Str(EffortNone)
        ELSE IF candidate \in {<<"x","-","h","i","g","h">>, <<"x","_","h","i","g","h">>, <<"x"," ","h","i","g","h">>} THEN Str(EffortXHigh)
        ELSE IF candidate \in REASONING_EFFORT_VALUES THEN Str(candidate)
        ELSE Str(EffortMedium)

\* getReasoningEffort(), the stored setting being `stored`; failed: getSettings threw
GetReasoningEffort(stored, failed) ==
    IF failed THEN Str(EffortMedium) ELSE NormalizeReasoningEffortSetting(stored)

\* setReasoningEffort(value): the value that is saved
SetReasoningEffort(value) == NormalizeReasoningEffortSetting(value)

\* A reasoning payload that falls back to 'medium'.
BuildReasoningPayloadWithDefault(model, reasoningEffort) ==
    IF ~IsGpt5Model(model) THEN EmptyObject
    ELSE LET effort == NormalizeReasoningEffort(reasoningEffort) IN
         Field("reasoning",
               [effort |-> IF Truthy(effort) THEN effort ELSE Str(EffortMedium)])

\* buildReasoningPayload(model, reasoningEffort)
BuildReasoningPayload(model, reasoningEffort) ==
    IF ~IsGpt5Model(model) THEN EmptyObject
    ELSE LET effort == NormalizeReasoningEffort(reasoningEffort) IN
         IF Truthy(effort) THEN Field("reasoning", [effort |-> effort]) ELSE EmptyObject

\* buildResponsesTokenPayload(maxTokens)
BuildResponsesTokenPayload(maxTokens) ==
    IF ~Truthy(maxTokens) \/ maxTokens.type # "number" THEN EmptyObject
    ELSE Field("max_output_tokens", maxTokens)

\* buildTemperaturePayload(model, temperature)
BuildTemperaturePayload(model, temperature) ==
    IF temperature.type # "number" THEN EmptyObject
    ELSE IF IsGpt5Model(model) THEN EmptyObject
    ELSE Field("temperature", temperature)

\* The defaults of createStreamingLLM's parameters; temperatures are in tenths.
DefaultModel == Str(<<"g","p","t","-","4",".","1">>)
DefaultTemperature == Num(7)
DefaultMaxTokens == Num(2048)

ResponsesUrl == "https://api.openai.com/v1/responses"
ChatCompletionsUrl == "https://api.portkey.ai/v1/chat/completions"

\* fetch(url, { method: 'POST', headers, body })
Fetch(url, body) == << [ch |-> "fetch", url |-> url, body |-> body] >>

\* createStreamingLLM(opts).streamChat(messages), up to its fetch.
StreamChatFetch(opts) ==
    LET model == Default(opts.model, DefaultModel)
        temperature == Default(opts.temperature, DefaultTemperature)
        maxTokens == Default(opts.maxTokens, DefaultMaxTokens)
        usePortkey == opts.usePortkey
        reasoningPayload == BuildReasoningPayload(model, opts.reasoningEffort)
        temperaturePayload == BuildTemperaturePayload(model, temperature)
    IN  IF ~usePortkey
        THEN Fetch(ResponsesUrl,
                   Spread(Spread(Spread(Spread(Spread(
                       Field("model", model),
                       Field("input", List("responsesInput"))),
                       temperaturePayload),
                       BuildResponsesTokenPayload(maxTokens)),
                       reasoningPayload),
                       Field("stream", True)))
        ELSE Fetch(ChatCompletionsUrl,
                   Spread(Spread(Spread(Spread(
                       Field("model", model),
                       Field("messages", List("normalizedMessages"))),
                       temperaturePayload),
                       BuildTokenPayload(model, maxTokens, TRUE)),
                       Field("stream", True)))

\* The values the functions are applied to.
Temperatures == { Undefined, Null, Num(0), Num(7), Num(10) }
TokenLimits == { Undefined, Null, NaN, Num(0), Num(1), Num(2048), Num(8192) }
Efforts ==
    { Str(<<"M","i","n","i","m","a","l">>), Str(<<"M","I","N","I","M","A","L">>), Str(<<" ","m","i","n","i","m","a","l"," ">>), Str(<<"m","i","n","i","m","a","l">>),
      Str(<<"x","-","h","i","g","h">>), Str(<<"x","_","h","i","g","h">>), Str(<<"x"," ","h","i","g","h">>), Str(<<"X","-","H","i","g","h"," ">>),
      Str(<<"n","o","n","e">>), Str(<<"l","o","w">>), Str(<<"m","e","d","i","u","m">>), Str(<<"h","i","g","h">>), Str(<<"x","h","i","g","h">>),
      Str(<<" ","H","i","g","h">>), Str(<<"u","l","t","r","a">>), Str(<<>>), Null, Undefined, Num(1) }

\* The options a streaming request is made with: a part of the values above.
StreamModels ==
    { Str(<<"g","p","t","-","5","-","m","i","n","i">>), Str(<<"G","P","T","-","5">>),
      Str(<<"g","p","t","-","4",".","1">>), Str(<<"o","-","g","p","t","-","5">>), Undefined }
StreamTokenLimits == { Undefined, Null, NaN, Num(0), Num(1), Num(2048) }
StreamEfforts ==
    { Str(<<" ","m","i","n","i","m","a","l"," ">>), Str(<<"h","i","g","h">>),
      Str(<<"u","l","t","r","a">>), Undefined }

StreamChatInput(opts) == [kind |-> "streamChat", opts |-> opts]
TokenPayloadInput(model, maxTokens, forceLegacyMaxTokens) ==
    [kind |-> "tokenPayload", model |-> model, maxTokens |-> maxTokens,
     forceLegacyMaxTokens |-> forceLegacyMaxTokens]
NormalizeInput(value) == [kind |-> "normalize", value |-> value]
ReasoningInput(model, reasoningEffort) ==
    [kind |-> "reasoning", model |-> model, reasoningEffort |-> reasoningEffort]
Result(value) == << [ch |-> "result", value |-> value] >>

\* streamChat builds and sends a request
StreamChatCall(opts) == Apply(StreamChatInput(opts), StreamChatFetch(opts))

\* buildTokenPayload is called
TokenPayloadCall(model, maxTokens, forceLegacyMaxTokens) ==
    Apply(TokenPayloadInput(model, maxTokens, forceLegacyMaxTokens),
          Result(BuildTokenPayload(model, maxTokens, forceLegacyMaxTokens)))

\* The two normalizations are applied to a value, and to their own results.
NormalizeCall(value) ==
    Apply(NormalizeInput(value),
          Result([adapter      |-> NormalizeReasoningEffort(value),
                  adapterTwice |-> NormalizeReasoningEffort(NormalizeReasoningEffort(value)),
                  setting      |-> NormalizeReasoningEffortSetting(value),
                  settingTwice |-> NormalizeReasoningEffortSetting(
                                       NormalizeReasoningEffortSetting(value))]))

\* An effort is stored by setReasoningEffort, read by getReasoningEffort, and the
\* adapter builds the reasoning payload from the raw value.
ReasoningCall(model, reasoningEffort) ==
    \E failed \in BOOLEAN :
        Apply(ReasoningInput(model, reasoningEffort),
              Result([payload |-> BuildReasoningPayload(model, reasoningEffort),
                      saved   |-> SetReasoningEffort(reasoningEffort),
                      read    |-> GetReasoningEffort(reasoningEffort, failed)]))

NextAdapter ==
    \/ \E model \in StreamModels, temperature \in Temperatures,
          maxTokens \in StreamTokenLimits, usePortkey \in BOOLEAN,
          reasoningEffort \in StreamEfforts :
            StreamChatCall([model |-> model, reasoningEffort |-> reasoningEffort,
                            maxTokens |-> maxTokens, temperature |-> temperature,
                            usePortkey |-> usePortkey])
    \/ \E model \in Models, maxTokens \in TokenLimits, forceLegacyMaxTokens \in BOOLEAN :
            TokenPayloadCall(model, maxTokens, forceLegacyMaxTokens)
    \/ \E value \in Efforts : NormalizeCall(value)
    \/ \E model \in Models, reasoningEffort \in Efforts : ReasoningCall(model, reasoningEffort)

SpecAdapter == Init /\ [][NextAdapter]_vars

\* ------------------------------------------------------------------ JSON
\* Values JSON.parse gives: null, booleans, numbers, strings, and arrays and
\* objects, which both have named properties (fields, in insertion order) and,
\* for arrays, items.
False == [type |-> "boolean", v |-> FALSE]
Obj(fields) == [type |-> "object", fields |-> fields, class |-> "Object", items |-> <<>>]
Arr(items) == [type |-> "object", fields |-> <<>>, class |-> "Array", items |-> items]
Member(key, value) == [key |-> key, value |-> value]

\* typeof v
TypeOf(v) == IF v = Null THEN "object" ELSE v.type

\* object[key]: the last member of that name, undefined when there is none
RECURSIVE Lookup(_, _)
Lookup(fields, key) ==
    IF fields = <<>> THEN Undefined
    ELSE IF fields[Len(fields)].key = key THEN fields[Len(fields)].value
    ELSE Lookup(SubSeq(fields, 1, Len(fields) - 1), key)
Get(object, key) ==
    IF object.type = "object" /\ object.class \in {"Object", "Array"}
    THEN Lookup(object.fields, key) ELSE Undefined

\* object[key] = value: an own property keeps its place, a new one goes last
SetFields(fields, key, value) ==
    IF \E i \in 1..Len(fields) : fields[i].key = key
    THEN [i \in 1..Len(fields) |->
            IF fields[i].key = key THEN Member(key, value) ELSE fields[i]]
    ELSE Append(fields, Member(key, value))
Set(object, key, value) == [object EXCEPT !.fields = SetFields(object.fields, key, value)]

\* The parser reads the JSON texts that are made of null, true, false, unsigned
\* integers, strings without escapes, arrays and objects, with blanks between
\* the tokens; it fails on every other text.
Digits == {"0", "1", "2", "3", "4", "5", "6", "7", "8", "9"}
DigitValue(c) == CHOOSE n \in 0..9 : <<"0", "1", "2", "3", "4", "5", "6", "7", "8", "9">>[n + 1] = c
Drop(s, n) == SubSeq(s, n + 1, Len(s))
Parsed(value, rest) == [value |-> value, rest |-> rest, ok |-> TRUE]
Failed == [value |-> Undefined, rest |-> <<>>, ok |-> FALSE]

\* The length of the longest prefix of s made of digits.
RECURSIVE DigitRun(_)
DigitRun(s) == IF s # <<>> /\ Head(s) \in Digits THEN 1 + DigitRun(Tail(s)) ELSE 0
RECURSIVE NumberValue(_, _)
NumberValue(s, acc) ==
    IF s = <<>> THEN acc ELSE NumberValue(Tail(s), 10 * acc + DigitValue(Head(s)))
ParseNumber(s) ==
    LET n == DigitRun(s) IN
    IF n > 1 /\ Head(s) = "0" THEN Failed
    ELSE Parsed(Num(NumberValue(SubSeq(s, 1, n), 0)), Drop(s, n))

\* The index of the first '"' of s, 0 when there is none.
RECURSIVE QuoteAt(_, _)
QuoteAt(s, i) ==
    IF i > Len(s) THEN 0 ELSE IF s[i] = "\"" THEN i ELSE QuoteAt(s, i + 1)
\* s starts after the opening quote
ParseString(s) ==
    LET q == QuoteAt(s, 1) IN
    IF q = 0 \/ \E i \in 1..(q - 1) : s[i] = "\\" THEN Failed
    ELSE Parsed(Str(SubSeq(s, 1, q - 1)), Drop(s, q))

RECURSIVE ParseValue(_)
RECURSIVE ParseElements(_, _)
RECURSIVE ParseMembers(_, _)
ParseValue(text) ==
    LET s == TrimLeft(text) IN
    IF s = <<>> THEN Failed
    ELSE IF StartsWith(s, <<"n","u","l","l">>) THEN Parsed(Null, Drop(s, 4))
    ELSE IF StartsWith(s, <<"t","r","u","e">>) THEN Parsed(True, Drop(s, 4))
    ELSE IF StartsWith(s, <<"f","a","l","s","e">>) THEN Parsed(False, Drop(s, 5))
    ELSE IF Head(s) \in Digits THEN ParseNumber(s)
    ELSE IF Head(s) = "\"" THEN ParseString(Tail(s))
    ELSE IF Head(s) = "[" THEN
        (IF TrimLeft(Tail(s)) # <<>> /\ Head(TrimLeft(Tail(s))) = "]"
         THEN Parsed(Arr(<<>>), Tail(TrimLeft(Tail(s))))
         ELSE ParseElements(Tail(s), <<>>))
    ELSE IF Head(s) = "{" THEN
        (IF TrimLeft(Tail(s)) # <<>> /\ Head(TrimLeft(Tail(s))) = "}"
         THEN Parsed(Obj(<<>>), Tail(TrimLeft(Tail(s))))
         ELSE ParseMembers(Tail(s), <<>>))
    ELSE Failed
\* text starts at an element; items are the elements read so far
ParseElements(text, items) ==
    LET element == ParseValue(text)
        after == TrimLeft(element.rest)
    IN  IF ~element.ok \/ after = <<>> THEN Failed
        ELSE IF Head(after) = "," THEN ParseElements(Tail(after), Append(items, element.value))
        ELSE IF Head(after) = "]" THEN Parsed(Arr(Append(items, element.value)), Tail(after))
        ELSE Failed
\* text starts at a member's name; fields are the members read so far
ParseMembers(text, fields) ==
    LET s == TrimLeft(text)
        name == IF s # <<>> /\ Head(s) = "\"" THEN ParseString(Tail(s)) ELSE Failed
        colon == TrimLeft(name.rest)
        member == IF name.ok /\ colon # <<>> /\ Head(colon) = ":"
                  THEN ParseValue(Tail(colon)) ELSE Failed
        after == TrimLeft(member.rest)
    IN  IF ~member.ok \/ after = <<>> THEN Failed
        ELSE IF Head(after) = ","
             THEN ParseMembers(Tail(after), SetFields(fields, name.value.chars, member.value))
        ELSE IF Head(after) = "}"
             THEN Parsed(Obj(SetFields(fields, name.value.chars, member.value)), Tail(after))
        ELSE Failed

\* JSON.parse(text): ok is FALSE when it throws
JSONParse(text) ==
    LET result == ParseValue(text) IN
    IF result.ok /\ TrimLeft(result.rest) = <<>> THEN result ELSE Failed

\* ------------------------------------------------------------------ transcription session
\* What the socket delivers and what the caller does.
Frame(data) == [kind |-> "frame", data |-> data]
SocketOpen == [kind |-> "socketOpen"]
SocketError == [kind |-> "socketError"]
SocketClose == [kind |-> "socketClose"]
SessionClose == [kind |-> "sessionClose"]

\* The payloads of the frames.
Payloads ==
    { Undefined, Str(<<>>), Str(<<"n","u","l","l">>), Str(<<"[","D","O","N","E","]">>), Str(<<"{">>), Str(<<"n","u","l">>),
      Str(<<"{","\"","t","y","p","e","\"",":","\"","x","\"">>), Str(<<"0">>), Str(<<"7">>), Str(<<"\"","\"">>), Str(<<"\"","a","\"">>), Str(<<"t","r","u","e">>),
      Str(<<"f","a","l","s","e">>), Str(<<"[","]">>), Str(<<"[","1","]">>), Str(<<"{","}">>), Str(<<" ","{","\"","t","y","p","e","\"",":","\"","x","\"","}"," ">>),
      Str(<<"{","\"","t","y","p","e","\"",":","\"","x","\"",",","\"","p","r","o","v","i","d","e","r","\"",":","\"","p","\"","}">>), Str(<<"{","\"","a","\"",":","{","\"","b","\"",":","[","1",",","n","u","l","l","]","}","}">>),
      Str(<<"[","D","O","N","E","]"," ">>), Str(<<"t","r","u">>), Str(<<"{","\"","a","\""," ","1","}">>), Str(<<"[","{","\"","a","\"",":","1","}","]">>), Str(<<"{","\"","p","r","o","v","i","d","e","r","\"",":","1","}">>), Str(<<"0","1">>),
      Str(<<"\"","n","u","l","l","\"">>), Str(<<"{","\"","d","e","l","t","a","\"",":","\"","H","e","l","\"","}">>), Str(<<"{","\"","t","y","p","e","\"",":","\"","x","\"",",","\"","t","y","p","e","\"",":","\"","y","\"","}">>) }

\* The callbacks of the caller, the messages put on the socket.
OnMessageCall(msg) == << [ch |-> "onmessage", msg |-> msg] >>
OnErrorCall == << [ch |-> "onerror"] >>
OnCloseCall == << [ch |-> "onclose"] >>
WsSend(type) == << [ch |-> "ws.send", type |-> type] >>
WsPing == << [ch |-> "ws.ping"] >>
WsClose(code) == << [ch |-> "ws.close", code |-> code] >>

\* resolve(...) and reject(...): a promise that is settled stays as it is
Resolve(p) == IF p = "pending" THEN "resolved" ELSE p
Reject(p) == IF p = "pending" THEN "rejected" ELSE p

\* A filter that passes every value JSON.parse gives.
DeliveredUnfiltered(data) ==
    IF ~Truthy(data) \/ data = Str(<<"n","u","l","l">>) \/ data = Str(<<"[","D","O","N","E","]">>) THEN <<>>
    ELSE LET parsed == JSONParse(data.chars) IN
         IF ~parsed.ok THEN <<>>
         ELSE OnMessageCall(IF TypeOf(parsed.value) = "object" /\ parsed.value # Null
                            THEN Set(parsed.value, <<"p","r","o","v","i","d","e","r">>, Str(<<"o","p","e","n","a","i">>))
                            ELSE parsed.value)

\* ws.onmessage as createSTT installs it: what it hands to callbacks.onmessage
Delivered(data) ==
    IF ~Truthy(data) \/ data = Str(<<"n","u","l","l">>) \/ data = Str(<<"[","D","O","N","E","]">>) THEN <<>>
    ELSE LET parsed == JSONParse(data.chars) IN
         IF ~parsed.ok THEN <<>>
         ELSE IF ~Truthy(parsed.value) \/ TypeOf(parsed.value) # "object" THEN <<>>
         ELSE OnMessageCall(Set(parsed.value, <<"p","r","o","v","i","d","e","r">>, Str(<<"o","p","e","n","a","i">>)))

\* The step of the session: what it was given, what it called.
SessionStep(given, out) ==
    /\ input' = given
    /\ sent' = out
    /\ UNCHANGED <<askVars, shortcutVars, toggles, notifyVars>>

\* ws.onopen: the handshake is complete; the session is configured and the
\* promise resolved with the session object.
OnOpen ==
    /\ ws.readyState = "CONNECTING"
    /\ ws' = [ws EXCEPT !.readyState = "OPEN"]
    /\ promise' = Resolve(promise)
    /\ SessionStep(SocketOpen, WsSend("transcription_session.update"))

\* ws.onmessage(event): a frame arrives on the socket that was opened
OnMessage(data) ==
    /\ ws.readyState \in {"OPEN", "CLOSING"}
    /\ promise = "resolved"
    /\ SessionStep(Frame(data), IF ws.handlers THEN Delivered(data) ELSE <<>>)
    /\ UNCHANGED <<ws, promise>>

\* A forwarding that goes on after the session was closed by the caller.
OnErrorForwardedAlways ==
    /\ ws.readyState # "CLOSED"
    /\ ws' = [ws EXCEPT !.readyState = "CLOSING"]
    /\ promise' = Reject(promise)
    /\ SessionStep(SocketError, OnErrorCall)

\* ws.onerror(error): the socket fails, before or after the handshake; once the
\* caller closed the session the handler is an empty function.
OnError ==
    /\ ws.readyState # "CLOSED"
    /\ ws' = [ws EXCEPT !.readyState = "CLOSING"]
    /\ promise' = IF ws.handlers THEN Reject(promise) ELSE promise
    /\ SessionStep(SocketError, IF ws.handlers THEN OnErrorCall ELSE <<>>)

\* ws.onclose(event)
OnClose ==
    /\ ws.readyState # "CLOSED"
    /\ ws' = [ws EXCEPT !.readyState = "CLOSED"]
    /\ SessionStep(SocketClose, OnCloseCall)
    /\ UNCHANGED promise

\* close() of a session object that leaves the handlers of the socket attached
CloseSessionKeepsHandlers ==
    /\ promise = "resolved"
    /\ IF ws.readyState = "OPEN"
       THEN /\ ws' = [ws EXCEPT !.readyState = "CLOSING"]
            /\ SessionStep(SessionClose, WsSend("session.close") \o WsClose(1000))
       ELSE /\ SessionStep(SessionClose, <<>>)
            /\ UNCHANGED ws
    /\ UNCHANGED promise

\* close() of the session object the promise resolved with
CloseSession ==
    /\ promise = "resolved"
    /\ IF ws.readyState = "OPEN"
       THEN /\ ws' = [readyState |-> "CLOSING", handlers |-> FALSE]
            /\ SessionStep(SessionClose, WsSend("session.close") \o WsClose(1000))
       ELSE /\ SessionStep(SessionClose, <<>>)
            /\ UNCHANGED ws
    /\ UNCHANGED promise

\* sendRealtimeInput(audioData) of the session object
SendRealtimeInput ==
    /\ promise = "resolved"
    /\ SessionStep([kind |-> "sendRealtimeInput"],
                   IF ws.readyState = "OPEN" THEN WsSend("input_audio_buffer.append") ELSE <<>>)
    /\ UNCHANGED <<ws, promise>>

\* keepAlive() of the session object
KeepAlive ==
    /\ promise = "resolved"
    /\ SessionStep([kind |-> "keepAlive"],
                   IF ws.readyState = "OPEN" THEN WsPing ELSE <<>>)
    /\ UNCHANGED <<ws, promise>>

NextSTT ==
    \/ OnOpen
    \/ \E data \in Payloads : OnMessage(data)
    \/ OnError
    \/ OnClose
    \/ CloseSession
    \/ SendRealtimeInput
    \/ KeepAlive

SpecSTT == Init /\ [][NextSTT]_vars

\* ------------------------------------------------------------------ shortcuts
\* process.platform === 'darwin'; the model runs on the other platforms.
IsMac == FALSE

\* getDefaultKeybinds() and getLegacyDefaultKeybinds(), for the two actions the
\* model follows: toggleVisibility and nextStep.
DefaultToggleVisibility == IF IsMac THEN "Cmd+Alt+H" ELSE "Ctrl+Alt+H"
DefaultNextStep == IF IsMac THEN "Cmd+Alt+A" ELSE "Ctrl+Alt+A"
LegacyToggleVisibility == IF IsMac THEN "Cmd+\\" ELSE "Ctrl+\\"
ExplicitAlias == IF IsMac THEN "Cmd+\\" ELSE "Ctrl+\\"
EdgeLeft == IF IsMac THEN "Cmd+Shift+Left" ELSE "Ctrl+Shift+Left"
EdgeRight == IF IsMac THEN "Cmd+Shift+Right" ELSE "Ctrl+Shift+Right"

\* The accelerators a user stores for toggleVisibility in the shortcut editor.
Accelerators ==
    { NoKeybinds, DefaultToggleVisibility, LegacyToggleVisibility, "Ctrl+Alt+Shift+H",
      "Cmd+Alt+Shift+H", "Ctrl+Alt+V", "Ctrl+Shift+Left" }
HeaderStates == { "main", "apikey" }

\* loadKeybinds(): the toggleVisibility accelerator in force; a missing one, the
\* legacy default and the two retired ones give the default, which is saved.
LoadKeybinds(stored) ==
    IF stored = NoKeybinds THEN DefaultToggleVisibility
    ELSE IF stored = LegacyToggleVisibility THEN DefaultToggleVisibility
    ELSE IF stored \in {"Ctrl+Alt+Shift+H", "Cmd+Alt+Shift+H"} THEN DefaultToggleVisibility
    ELSE stored

\* globalShortcut.register(accelerator, callback): an accelerator that is
\* registered already keeps its callback.
Shortcut(accelerator, callback) == [accelerator |-> accelerator, callback |-> callback]
Register(registry, accelerator, callback) ==
    IF \E s \in registry : s.accelerator = accelerator THEN registry
    ELSE registry \cup {Shortcut(accelerator, callback)}
ToggleAll == "toggleAllWindowsVisibility"

\* registerToggleVisibilityWithAliases()
RegisterToggleVisibilityWithAliases(registry, toggleVisibility) ==
    LET first == Register(registry, toggleVisibility, ToggleAll) IN
    IF ExplicitAlias # toggleVisibility THEN Register(first, ExplicitAlias, ToggleAll)
    ELSE first

\* The registry registerShortcuts(registerOnlyToggleVisibility) leaves, after
\* globalShortcut.unregisterAll().
Registry(registerOnlyToggleVisibility, header, toggleVisibility) ==
    IF registerOnlyToggleVisibility
    THEN RegisterToggleVisibilityWithAliases({}, toggleVisibility)
    ELSE LET hardcoded == Register(Register({}, EdgeLeft, "moveToEdge"), EdgeRight, "moveToEdge")
         IN  IF header = "apikey"
             THEN RegisterToggleVisibilityWithAliases(hardcoded, toggleVisibility)
             ELSE Register(Register(hardcoded, toggleVisibility, ToggleAll),
                           DefaultNextStep, "toggleAskButton")

\* What calls registerShortcuts.
Registration(cause, registerOnlyToggleVisibility) ==
    [kind |-> "registerShortcuts",
     registerOnlyToggleVisibility |-> registerOnlyToggleVisibility, cause |-> cause]
ShortcutsUpdated == [ch |-> "shortcuts-updated"]
ClickThroughToggled == [ch |-> "click-through-toggled"]

\* registerShortcuts(registerOnlyToggleVisibility) with the header in state
\* `header` and `stored` in the repository, after the caller sent `before`.
RegisterShortcuts(given, registerOnlyToggleVisibility, header, stored, before) ==
    /\ keybinds' = LoadKeybinds(stored)
    /\ registered' = Registry(registerOnlyToggleVisibility, header, LoadKeybinds(stored))
    /\ input' = given
    /\ sent' = before \o <<ShortcutsUpdated, ClickThroughToggled>>
    /\ UNCHANGED <<askVars, sttVars, notifyVars>>

\* internalBridge 'reregister-shortcuts', emitted when the header changes state
Reregister(header) ==
    /\ headerState' = header
    /\ RegisterShortcuts(Registration("reregister-shortcuts", FALSE), FALSE, header, keybinds, <<>>)
    /\ UNCHANGED <<allWindowVisibility, toggles>>

\* internalBridge.emit('window:requestToggleAllWindowsVisibility', { targetVisibility })
RequestToggleAll(targetVisibility) ==
    << [targetVisibility |-> targetVisibility,
        ch |-> "window:requestToggleAllWindowsVisibility"] >>

\* toggleAllWindowsVisibility(), the callback of a registered accelerator
ToggleAllWindowsVisibility ==
    /\ \E s \in registered : s.callback = ToggleAll
    /\ RegisterShortcuts(Registration("toggleAllWindowsVisibility", allWindowVisibility),
                         allWindowVisibility, headerState, keybinds,
                         RequestToggleAll(~allWindowVisibility))
    /\ allWindowVisibility' = ~allWindowVisibility
    /\ UNCHANGED <<headerState, toggles>>

\* openShortcutSettingsWindow()
OpenShortcutSettingsWindow ==
    /\ keybinds' = LoadKeybinds(keybinds)
    /\ registered' = {}
    /\ input' = [kind |-> "openShortcutSettingsWindow"]
    /\ sent' = << [ch |-> "shortcut:loadShortcuts"],
                  [ch |-> "window:requestVisibility", visible |-> TRUE] >>
    /\ UNCHANGED <<askVars, sttVars, allWindowVisibility, headerState, toggles, notifyVars>>

\* closeShortcutSettingsWindow()
CloseShortcutSettingsWindow ==
    /\ registered = {}
    /\ RegisterShortcuts(Registration("closeShortcutSettingsWindow", FALSE), FALSE,
                         headerState, keybinds,
                         << [ch |-> "window:requestVisibility", visible |-> FALSE] >>)
    /\ UNCHANGED <<allWindowVisibility, headerState, toggles>>

\* handleSaveShortcuts(newKeybinds): the keybinds are saved, unless saveKeybinds
\* fails, and the editor is closed
HandleSaveShortcuts(toggleVisibility, failed) ==
    /\ registered = {}
    /\ RegisterShortcuts([kind |-> "registerShortcuts",
                          registerOnlyToggleVisibility |-> FALSE, failed |-> failed,
                          cause |-> "handleSaveShortcuts", newKeybinds |-> toggleVisibility],
                         FALSE, headerState, IF failed THEN keybinds ELSE toggleVisibility,
                         << [ch |-> "window:requestVisibility", visible |-> FALSE] >>)
    /\ UNCHANGED <<allWindowVisibility, headerState, toggles>>

NextShortcuts ==
    \/ \E header \in HeaderStates : Reregister(header)
    \/ ToggleAllWindowsVisibility
    \/ OpenShortcutSettingsWindow
    \/ CloseShortcutSettingsWindow
    \/ \E toggleVisibility \in Accelerators, failed \in BOOLEAN :
            HandleSaveShortcuts(toggleVisibility, failed)

SpecShortcuts == Init /\ [][NextShortcuts]_vars

\* ------------------------------------------------------------------ stream decoding
\* _processStream on the text of the stream: the chunks are texts, the lines are
\* split out of them and JSON.parse reads their payloads.
LF == "\n"

\* String.prototype.split('\n'): the pieces between the line feeds, at least one
Breaks(text) == { i \in 1..Len(text) : text[i] = LF }
Break(text, k) ==
    IF k = 0 THEN 0
    ELSE IF k > Cardinality(Breaks(text)) THEN Len(text) + 1
    ELSE CHOOSE i \in Breaks(text) : Cardinality({ j \in Breaks(text) : j < i }) = k - 1
Split(text) ==
    [ k \in 1..(Cardinality(Breaks(text)) + 1) |->
        SubSeq(text, Break(text, k - 1) + 1, Break(text, k) - 1) ]

\* Array.prototype.join('') of texts
RECURSIVE Join(_)
Join(texts) == IF texts = <<>> THEN <<>> ELSE Head(texts) \o Join(Tail(texts))

\* typeof v === 'string', Array.isArray(v), v && typeof v === 'object'
IsString(v) == v.type = "string"
IsArray(v) == v.type = "object" /\ v.class = "Array"
IsObject(v) == v.type = "object"

\* v?.[0]: the first item of an array, the property '0' of an object; a string
\* has a character there, which has none of the properties read from it.
First(v) ==
    IF IsArray(v) THEN IF v.items # <<>> THEN v.items[1] ELSE Undefined
    ELSE Get(v, <<"0">>)

\* The text of a string, '' for anything else.
Chars(v) == IF IsString(v) THEN v.chars ELSE <<>>

\* The callback of content.map in _extractTokenFromStreamEvent
TokenPart(part) ==
    IF IsString(part) THEN part.chars
    ELSE IF ~IsObject(part) THEN <<>>
    ELSE IF IsString(Get(part, <<"t","e","x","t">>)) THEN Get(part, <<"t","e","x","t">>).chars
    ELSE IF IsString(Get(part, <<"d","e","l","t","a">>)) THEN Get(part, <<"d","e","l","t","a">>).chars
    ELSE Chars(Get(Get(part, <<"t","e","x","t">>), <<"v","a","l","u","e">>))

\* _extractTokenFromStreamEvent with the choices content read before the
\* event shapes of the Responses API
ExtractTokenChoicesFirst(eventPayload) ==
    LET type == Get(eventPayload, <<"t","y","p","e">>)
        delta == Get(eventPayload, <<"d","e","l","t","a">>)
        part == Get(eventPayload, <<"p","a","r","t">>)
        content == Get(Get(First(Get(eventPayload, <<"c","h","o","i","c","e","s">>)), <<"d","e","l","t","a">>), <<"c","o","n","t","e","n","t">>)
    IN  IF ~IsObject(eventPayload) THEN <<>>
        ELSE IF IsString(content) THEN content.chars
        ELSE IF IsArray(content)
             THEN Join([i \in 1..Len(content.items) |-> TokenPart(content.items[i])])
        ELSE IF IsString(delta) THEN delta.chars
        ELSE IF type = Str(<<"r","e","s","p","o","n","s","e",".","c","o","n","t","e","n","t","_","p","a","r","t",".","a","d","d","e","d">>) /\ IsString(Get(part, <<"t","e","x","t">>))
             THEN Get(part, <<"t","e","x","t">>).chars
        ELSE IF type = Str(<<"r","e","s","p","o","n","s","e",".","c","o","n","t","e","n","t","_","p","a","r","t",".","d","e","l","t","a">>) /\ IsString(Get(delta, <<"t","e","x","t">>))
             THEN Get(delta, <<"t","e","x","t">>).chars
        ELSE <<>>

\* _extractTokenFromStreamEvent
ExtractToken(eventPayload) ==
    LET type == Get(eventPayload, <<"t","y","p","e">>)
        delta == Get(eventPayload, <<"d","e","l","t","a">>)
        part == Get(eventPayload, <<"p","a","r","t">>)
        content == Get(Get(First(Get(eventPayload, <<"c","h","o","i","c","e","s">>)), <<"d","e","l","t","a">>), <<"c","o","n","t","e","n","t">>)
    IN  IF ~IsObject(eventPayload) THEN <<>>
        ELSE IF IsString(delta) THEN delta.chars
        ELSE IF type = Str(<<"r","e","s","p","o","n","s","e",".","c","o","n","t","e","n","t","_","p","a","r","t",".","a","d","d","e","d">>) /\ IsString(Get(part, <<"t","e","x","t">>))
             THEN Get(part, <<"t","e","x","t">>).chars
        ELSE IF type = Str(<<"r","e","s","p","o","n","s","e",".","c","o","n","t","e","n","t","_","p","a","r","t",".","d","e","l","t","a">>) /\ IsString(Get(delta, <<"t","e","x","t">>))
             THEN Get(delta, <<"t","e","x","t">>).chars
        ELSE IF IsString(content) THEN content.chars
        ELSE IF IsArray(content)
             THEN Join([i \in 1..Len(content.items) |-> TokenPart(content.items[i])])
        ELSE <<>>

\* The callbacks of the two maps in _extractCompletedTextFromStreamEvent
OutputTextPart(part) ==
    IF IsString(part) THEN part.chars
    ELSE IF ~IsObject(part) THEN <<>>
    ELSE Chars(Get(part, <<"t","e","x","t">>))
ContentPart(part) ==
    IF ~IsObject(part) THEN <<>>
    ELSE IF IsString(Get(part, <<"t","e","x","t">>)) THEN Get(part, <<"t","e","x","t">>).chars
    ELSE Chars(Get(Get(part, <<"t","e","x","t">>), <<"v","a","l","u","e">>))

\* output.flatMap(item => Array.isArray(item?.content) ? item.content : [])
RECURSIVE FlatContent(_)
FlatContent(output) ==
    IF output = <<>> THEN <<>>
    ELSE LET content == Get(Head(output), <<"c","o","n","t","e","n","t">>)
         IN  (IF IsArray(content) THEN content.items ELSE <<>>) \o FlatContent(Tail(output))

\* _extractCompletedTextFromStreamEvent
ExtractCompletedText(eventPayload) ==
    LET response == Get(eventPayload, <<"r","e","s","p","o","n","s","e">>)
        outputText == Get(response, <<"o","u","t","p","u","t","_","t","e","x","t">>)
        output == IF IsArray(Get(response, <<"o","u","t","p","u","t">>)) THEN Get(response, <<"o","u","t","p","u","t">>).items
                  ELSE <<>>
        parts == FlatContent(output)
    IN  IF ~IsObject(eventPayload) \/ ~IsObject(response) THEN <<>>
        ELSE IF IsString(outputText) THEN Trim(outputText.chars)
        ELSE IF IsArray(outputText)
             THEN Trim(Join([i \in 1..Len(outputText.items) |->
                                 OutputTextPart(outputText.items[i])]))
        ELSE Trim(Join([i \in 1..Len(parts) |-> ContentPart(parts[i])]))

\* message || fallback, for the messages of the model: strings, or none
MessageOr(message, fallback) ==
    IF IsString(message) /\ Truthy(message) THEN message.chars ELSE fallback

\* _extractErrorFromStreamEvent
ExtractError(eventPayload) ==
    IF ~IsObject(eventPayload) THEN <<>>
    ELSE IF Get(eventPayload, <<"t","y","p","e">>) = Str(<<"e","r","r","o","r">>)
    THEN MessageOr(Get(Get(eventPayload, <<"e","r","r","o","r">>), <<"m","e","s","s","a","g","e">>), UnknownStreamingError)
    ELSE IF Get(eventPayload, <<"t","y","p","e">>) = Str(<<"r","e","s","p","o","n","s","e",".","f","a","i","l","e","d">>)
    THEN MessageOr(Get(Get(Get(eventPayload, <<"r","e","s","p","o","n","s","e">>), <<"e","r","r","o","r">>), <<"m","e","s","s","a","g","e">>),
                   ResponseFailed)
    ELSE <<>>

\* The payload of a data line, after `trimmedLine.slice(5).trim()`.
DataPrefix == <<"d","a","t","a",":">>
DoneMarker == <<"[","D","O","N","E","]">>
IsDataLine(line) == StartsWith(Trim(line), DataPrefix)
DataOf(line) == Trim(Drop(Trim(line), Len(DataPrefix)))

\* One iteration of `for (const line of lines)` on the text of the line.
DecodeLine(acc, line) ==
    IF ~IsDataLine(line) \/ DataOf(line) = DoneMarker THEN acc
    ELSE LET json == JSONParse(DataOf(line)) IN
         IF ~json.ok THEN acc
         ELSE LET streamError == ExtractError(json.value) IN
              IF streamError # <<>>
              THEN [acc EXCEPT !.thrown = TRUE, !.error = streamError]
              ELSE LET token == ExtractToken(json.value)
                       full == acc.fullResponse \o token
                       st == [acc.st EXCEPT !.currentResponse = full]
                       a1 == IF token # <<>>
                             THEN [acc EXCEPT !.fullResponse = full, !.st = st,
                                              !.out = @ \o BroadcastState(st, 0)]
                             ELSE acc
                   IN  IF a1.completedText = <<>>
                       THEN [a1 EXCEPT !.completedText = ExtractCompletedText(json.value)]
                       ELSE a1

\* The for loop over the complete lines of the buffer; it ends at the first throw.
RECURSIVE DecodeLines(_, _)
DecodeLines(acc, lines) ==
    IF lines = <<>> \/ acc.thrown THEN acc
    ELSE DecodeLines(DecodeLine(acc, Head(lines)), Tail(lines))

\* A loop body that decodes every piece of the chunk and keeps no remainder.
ReadChunkUnbuffered(acc, chunk) == DecodeLines(acc, Split(chunk))

\* The body of the read loop for one chunk: the chunk joins the buffer, the last
\* piece of the split stays in the buffer and the others are decoded.
ReadChunk(acc, chunk) ==
    LET lines == Split(acc.sseBuffer \o chunk)
    IN  DecodeLines([acc EXCEPT !.sseBuffer = lines[Len(lines)]],
                    SubSeq(lines, 1, Len(lines) - 1))

\* The read loop over the chunks the reader delivers before it reports done.
RECURSIVE ReadLoop(_, _)
ReadLoop(acc, chunks) ==
    IF chunks = <<>> \/ acc.thrown THEN acc
    ELSE ReadLoop(ReadChunk(acc, Head(chunks)), Tail(chunks))

\* The locals of _processStream and this.state when the loop starts (420-429).
StreamStart(st) ==
    LET streaming == [st EXCEPT !.isLoading = FALSE, !.isStreaming = TRUE] IN
    [fullResponse |-> <<>>, completedText |-> <<>>, st |-> streaming,
     out |-> BroadcastState(streaming, 0), thrown |-> FALSE, error |-> <<>>,
     sseBuffer |-> <<>>]

\* An end of the stream that decodes what is left in the buffer as a last line.
StreamEndFlushing(acc) ==
    LET flushed == DecodeLine([acc EXCEPT !.sseBuffer = <<>>], acc.sseBuffer)
        final == FinalText(flushed.fullResponse, flushed.completedText)
        st == [flushed.st EXCEPT !.isStreaming = FALSE, !.currentResponse = final]
    IN  [flushed EXCEPT !.fullResponse = final, !.st = st,
                        !.out = @ \o (IF flushed.thrown THEN StreamErrorEvent(flushed.error, 0) ELSE <<>>)
                                  \o BroadcastState(st, 0)
                                  \o (IF ShouldPersist(final)
                                      THEN AddAiMessage("assistant", final, 0) ELSE <<>>)]

\* catch and finally of _processStream for a signal that is not aborted and a
\* repository that accepts the message.
StreamEnd(acc) ==
    LET final == FinalText(acc.fullResponse, acc.completedText)
        st == [acc.st EXCEPT !.isStreaming = FALSE, !.currentResponse = final]
    IN  [acc EXCEPT !.fullResponse = final, !.st = st,
                    !.out = @ \o (IF acc.thrown THEN StreamErrorEvent(acc.error, 0) ELSE <<>>)
                              \o BroadcastState(st, 0)
                              \o (IF ShouldPersist(final)
                                  THEN AddAiMessage("assistant", final, 0) ELSE <<>>)]

\* _processStream from its first statement to its return.
ProcessStreamText(st, chunks) == StreamEnd(ReadLoop(StreamStart(st), chunks))

\* The chunks of the streams.
ChunkHel == <<"d","a","t","a",":"," ","{","\"","d","e","l","t","a","\"",":","\"","H","e","l","\"","}">> \o <<LF, LF>>
ChunkLo == <<"d","a","t","a",":"," ","{","\"","d","e","l","t","a","\"",":","\"","l","o","\"","}">> \o <<LF, LF>>
ChunkDone == <<"d","a","t","a",":"," ","[","D","O","N","E","]">> \o <<LF, LF>>
ChunkHalf == <<"e","v","e","n","t",":"," ","x">> \o <<LF>> \o <<" ","d","a","t","a",":","{","\"","c","h","o","i","c","e","s","\"",":","[","{","\"","d","e","l">>
ChunkRest == <<"t","a","\"",":","{","\"","c","o","n","t","e","n","t","\"",":","[","\"","!","\"",",","{","\"","t","e","x","t","\"",":","\"","?","\"","}","]","}","}","]","}">> \o <<LF>> \o <<"d","a","t","a",":"," ","{","\"","d","e","l","t","a","\"",":","\"","l","o","s","t","\"","}">>
ChunkBroken == <<"d","a","t","a",":"," ","{","\"","d","e","l","t","a","\"",":","\"","n","o">> \o <<LF>> \o <<"d","a","t","a",":">> \o <<LF>> \o <<"d","a","t","a",":"," ","5">> \o <<LF>>
ChunkCompleted ==
    <<"d","a","t","a",":"," ","{","\"","r","e","s","p","o","n","s","e","\"",":","{","\"","o","u","t","p","u","t","_","t","e","x","t","\"",":","\""," ","o","k"," ","\"","}","}">> \o <<LF>>
ChunkError ==
    <<"d","a","t","a",":"," ","{","\"","t","y","p","e","\"",":","\"","e","r","r","o","r","\"",",","\"","e","r","r","o","r","\"",":","{","\"","m","e","s","s","a","g","e","\"",":","\"","o","v","e","r","l","o","a","d","e","d","\"","}","}">> \o <<LF>>
    \o <<"d","a","t","a",":"," ","{","\"","d","e","l","t","a","\"",":","\"","l","a","t","e","\"","}">> \o <<LF>>
TextChunks ==
    { ChunkHel, ChunkLo, ChunkDone, ChunkHalf, ChunkRest, ChunkBroken, ChunkCompleted,
      ChunkError }

\* The streams: up to MaxChunks chunks, with or without the end marker after them.
MaxChunks == 2
Bodies == UNION { [1..n -> TextChunks] : n \in 0..MaxChunks }
Streams == Bodies \cup { Append(body, ChunkDone) : body \in Bodies }

StreamRead(chunks) == [kind |-> "stream", chunks |-> chunks]

\* sendMessage has installed the loading state and streamChat has resolved:
\* _processStream runs on a reader that delivers `chunks` and then reports done.
ProcessStream(chunks) ==
    LET result == ProcessStreamText(LoadingState(state, <<>>), chunks) IN
    /\ input' = StreamRead(chunks)
    /\ state' = result.st
    /\ Emit(result.out)
    /\ UNCHANGED <<abortController, rq, pc, winAvail, now, elsewhere>>

NextStream == \E chunks \in Streams : ProcessStream(chunks)

SpecStream == Init /\ [][NextStream]_vars

\* ------------------------------------------------------------------ message shaping
\* The messages and the responses are JSON values, written as JSON text.
Json(text) == JSONParse(text).value

RoleKey == <<"r","o","l","e">>
ContentKey == <<"c","o","n","t","e","n","t">>
TypeKey == <<"t","y","p","e">>
TextKey == <<"t","e","x","t">>
ImageUrlKey == <<"i","m","a","g","e","_","u","r","l">>
UrlKey == <<"u","r","l">>

\* A rewrite that does not look at the model.
NormalizeMessagesForAnyModel(model, messages) ==
    IF ~IsArray(messages) THEN Arr(<<>>)
    ELSE Arr([ i \in 1..Len(messages.items) |->
                 IF IsObject(messages.items[i])
                    /\ Get(messages.items[i], RoleKey) = Str(<<"s","y","s","t","e","m">>)
                 THEN Set(messages.items[i], RoleKey, Str(<<"d","e","v","e","l","o","p","e","r">>))
                 ELSE messages.items[i] ])

\* normalizeMessagesForModel(model, messages)
NormalizeMessagesForModel(model, messages) ==
    IF ~IsArray(messages) THEN Arr(<<>>)
    ELSE IF ~IsGpt5Model(model) THEN messages
    ELSE Arr([ i \in 1..Len(messages.items) |->
                 IF IsObject(messages.items[i])
                    /\ Get(messages.items[i], RoleKey) = Str(<<"s","y","s","t","e","m">>)
                 THEN Set(messages.items[i], RoleKey, Str(<<"d","e","v","e","l","o","p","e","r">>))
                 ELSE messages.items[i] ])

\* normalizeResponsesRole(role)
NormalizeResponsesRole(role) ==
    IF role \in { Str(<<"a","s","s","i","s","t","a","n","t">>), Str(<<"s","y","s","t","e","m">>), Str(<<"d","e","v","e","l","o","p","e","r">>) } THEN role
    ELSE Str(<<"u","s","e","r">>)

\* { type: 'input_text', text } and { type: 'input_image', image_url }
InputText(text) == Obj(<< Member(TypeKey, Str(<<"i","n","p","u","t","_","t","e","x","t">>)), Member(TextKey, text) >>)
InputImage(imageUrl) ==
    Obj(<< Member(TypeKey, Str(<<"i","n","p","u","t","_","i","m","a","g","e">>)), Member(ImageUrlKey, imageUrl) >>)

\* normalizeResponsesContentPart(part): Null for a part that is dropped
NormalizeResponsesContentPart(part) ==
    LET type == Get(part, TypeKey)
        text == Get(part, TextKey)
        imageUrl == IF IsString(Get(part, ImageUrlKey)) THEN Get(part, ImageUrlKey)
                    ELSE Get(Get(part, ImageUrlKey), UrlKey)
    IN  IF IsString(part) THEN InputText(part)
        ELSE IF ~IsObject(part) THEN Null
        ELSE IF type = Str(<<"t","e","x","t">>) /\ IsString(text) THEN InputText(text)
        ELSE IF type = Str(<<"i","n","p","u","t","_","t","e","x","t">>) /\ IsString(text) THEN InputText(text)
        ELSE IF type = Str(<<"i","m","a","g","e","_","u","r","l">>) /\ IsString(imageUrl) /\ imageUrl.chars # <<>>
             THEN InputImage(imageUrl)
        ELSE IF type = Str(<<"i","n","p","u","t","_","i","m","a","g","e">>) /\ IsString(Get(part, ImageUrlKey))
             THEN InputImage(Get(part, ImageUrlKey))
        ELSE Null

\* The callback of the map in convertMessagesToResponsesInput
ResponsesItem(message) ==
    LET rawContent == Get(message, ContentKey)
        contentArray == IF IsArray(rawContent) THEN rawContent.items ELSE << rawContent >>
        content == SelectSeq([ i \in 1..Len(contentArray) |->
                                 NormalizeResponsesContentPart(contentArray[i]) ],
                             LAMBDA part : part # Null)
    IN  Obj(<< Member(RoleKey, NormalizeResponsesRole(Get(message, RoleKey))),
               Member(ContentKey,
                      Arr(IF content = <<>> THEN << InputText(Str(<<>>)) >> ELSE content)) >>)

\* convertMessagesToResponsesInput(model, messages)
ConvertMessagesToResponsesInput(model, messages) ==
    LET normalizedMessages ==
            SelectSeq(NormalizeMessagesForModel(model, messages).items, IsObject)
    IN  Arr([ i \in 1..Len(normalizedMessages) |-> ResponsesItem(normalizedMessages[i]) ])

\* The messages of the requests.
MessagePool ==
    { Json(<<"{","\"","r","o","l","e","\"",":","\"","s","y","s","t","e","m","\"",",","\"","c","o","n","t","e","n","t","\"",":","\"","b","e"," ","b","r","i","e","f","\"","}">>),
      Json(<<"{","\"","n","a","m","e","\"",":","\"","n","\"",",","\"","r","o","l","e","\"",":","\"","s","y","s","t","e","m","\"",",","\"","c","o","n","t","e","n","t","\"",":","[","]","}">>),
      Json(<<"{","\"","r","o","l","e","\"",":","\"","u","s","e","r","\"",",","\"","c","o","n","t","e","n","t","\"",":","[","{","\"","t","y","p","e","\"",":","\"","t","e","x","t","\"",",","\"","t","e","x","t","\"",":","\"","h","i","\"","}",",","{","\"","t","y","p","e","\"",":","\"","i","m","a","g","e","_","u","r","l","\"",",","\"","i","m","a","g","e","_","u","r","l","\"",":","{","\"","u","r","l","\"",":","\"","u","\"","}","}",",","\"","s","\"",",","5",",","{","\"","t","y","p","e","\"",":","\"","t","e","x","t","\"","}","]","}">>),
      Json(<<"{","\"","r","o","l","e","\"",":","\"","t","o","o","l","\"",",","\"","c","o","n","t","e","n","t","\"",":","[","{","\"","t","y","p","e","\"",":","\"","i","m","a","g","e","_","u","r","l","\"",",","\"","i","m","a","g","e","_","u","r","l","\"",":","\"","v","\"","}",",","{","\"","t","y","p","e","\"",":","\"","i","m","a","g","e","_","u","r","l","\"",",","\"","i","m","a","g","e","_","u","r","l","\"",":","\"","\"","}",",","{","\"","t","y","p","e","\"",":","\"","i","n","p","u","t","_","i","m","a","g","e","\"",",","\"","i","m","a","g","e","_","u","r","l","\"",":","\"","w","\"","}",",","{","\"","t","y","p","e","\"",":","\"","i","n","p","u","t","_","t","e","x","t","\"",",","\"","t","e","x","t","\"",":","\"","\"","}","]","}">>),
      Json(<<"{","\"","r","o","l","e","\"",":","\"","a","s","s","i","s","t","a","n","t","\"",",","\"","c","o","n","t","e","n","t","\"",":","[","{","\"","t","y","p","e","\"",":","\"","i","n","p","u","t","_","i","m","a","g","e","\"",",","\"","i","m","a","g","e","_","u","r","l","\"",":","{","\"","u","r","l","\"",":","\"","u","\"","}","}","]","}">>),
      Json(<<"{","\"","r","o","l","e","\"",":","\"","d","e","v","e","l","o","p","e","r","\"","}">>),
      Json(<<"n","u","l","l">>),
      Json(<<"\"","s","y","s","t","e","m","\"">>) }
MaxMessages == 2
MessageLists ==
    { Arr(items) : items \in UNION { [1..n -> MessagePool] : n \in 0..MaxMessages } }
        \cup { Null, Json(<<"{","\"","r","o","l","e","\"",":","\"","s","y","s","t","e","m","\"","}">>) }
MessageModels ==
    { Str(<<"g","p","t","-","5","-","m","i","n","i">>), Str(<<"G","P","T","-","5">>), Str(<<"g","p","t","-","4",".","1">>), Str(<<"o","-","g","p","t","-","5">>), Undefined }

NormalizeMessagesInput(model, messages) ==
    [kind |-> "normalizeMessages", messages |-> messages, model |-> model]
ConvertInput(model, messages) ==
    [kind |-> "convert", messages |-> messages, model |-> model]

\* The chat-completions request is given normalizeMessagesForModel(model, messages)
NormalizeMessagesCall(model, messages) ==
    Apply(NormalizeMessagesInput(model, messages),
          Result(NormalizeMessagesForModel(model, messages)))

\* The responses request is given convertMessagesToResponsesInput(model, messages)
ConvertCall(model, messages) ==
    Apply(ConvertInput(model, messages),
          Result(ConvertMessagesToResponsesInput(model, messages)))

\* ------------------------------------------------------------------ response decoding
\* extractTextContent(content); its map callback is the one of
\* _extractTokenFromStreamEvent
ExtractTextContent(content) ==
    IF IsString(content) THEN Trim(content.chars)
    ELSE IF ~IsArray(content) THEN <<>>
    ELSE Trim(Join([ i \in 1..Len(content.items) |-> TokenPart(content.items[i]) ]))

\* extractAssistantContent(responseLike)
ExtractAssistantContent(responseLike) ==
    ExtractTextContent(
        Get(Get(First(Get(responseLike, <<"c","h","o","i","c","e","s">>)), <<"m","e","s","s","a","g","e">>), ContentKey))

\* A decoder that looks at the chat-completions shape first.
ExtractAssistantContentChoicesFirst(responseLike) ==
    LET outputText == Get(responseLike, <<"o","u","t","p","u","t","_","t","e","x","t">>)
        output == IF IsArray(Get(responseLike, <<"o","u","t","p","u","t">>))
                  THEN Get(responseLike, <<"o","u","t","p","u","t">>).items ELSE <<>>
        parts == FlatContent(output)
        text == Trim(Join([ i \in 1..Len(parts) |-> ContentPart(parts[i]) ]))
    IN  IF ~IsObject(responseLike) THEN <<>>
        ELSE IF ExtractAssistantContent(responseLike) # <<>>
             THEN ExtractAssistantContent(responseLike)
        ELSE IF IsString(outputText) THEN Trim(outputText.chars)
        ELSE IF IsArray(outputText)
             THEN Trim(Join([ i \in 1..Len(outputText.items) |->
                                 OutputTextPart(outputText.items[i]) ]))
        ELSE text

\* extractAssistantContentFromResponses(responseLike); its map callbacks and its
\* flatMap are those of _extractCompletedTextFromStreamEvent
ExtractAssistantContentFromResponses(responseLike) ==
    LET outputText == Get(responseLike, <<"o","u","t","p","u","t","_","t","e","x","t">>)
        output == IF IsArray(Get(responseLike, <<"o","u","t","p","u","t">>))
                  THEN Get(responseLike, <<"o","u","t","p","u","t">>).items ELSE <<>>
        parts == FlatContent(output)
        text == Trim(Join([ i \in 1..Len(parts) |-> ContentPart(parts[i]) ]))
    IN  IF ~IsObject(responseLike) THEN <<>>
        ELSE IF IsString(outputText) THEN Trim(outputText.chars)
        ELSE IF IsArray(outputText)
             THEN Trim(Join([ i \in 1..Len(outputText.items) |->
                                 OutputTextPart(outputText.items[i]) ]))
        ELSE IF text # <<>> THEN text
        ELSE ExtractAssistantContent(responseLike)

\* The responses that are decoded.
Responses ==
    { Undefined, Null, Str(<<"o","k">>), Num(5), True, Json(<<"[","]">>), Json(<<"{","}">>),
      Json(<<"{","\"","o","u","t","p","u","t","_","t","e","x","t","\"",":","\""," ","a"," ","\"",",","\"","o","u","t","p","u","t","\"",":","[","{","\"","c","o","n","t","e","n","t","\"",":","[","{","\"","t","e","x","t","\"",":","\"","b","\"","}","]","}","]",",","\"","c","h","o","i","c","e","s","\"",":","[","{","\"","m","e","s","s","a","g","e","\"",":","{","\"","c","o","n","t","e","n","t","\"",":","\"","c","\"","}","}","]","}">>),
      Json(<<"{","\"","o","u","t","p","u","t","_","t","e","x","t","\"",":","\"","\"",",","\"","c","h","o","i","c","e","s","\"",":","[","{","\"","m","e","s","s","a","g","e","\"",":","{","\"","c","o","n","t","e","n","t","\"",":","\"","c","\"","}","}","]","}">>),
      Json(<<"{","\"","o","u","t","p","u","t","_","t","e","x","t","\"",":","[","\""," ","a","\"",",","{","\"","t","e","x","t","\"",":","\"","b"," ","\"","}",",","{","\"","t","e","x","t","\"",":","{","\"","v","a","l","u","e","\"",":","\"","x","\"","}","}",",","n","u","l","l",",","7","]",",","\"","o","u","t","p","u","t","\"",":","[","{","\"","c","o","n","t","e","n","t","\"",":","[","{","\"","t","e","x","t","\"",":","\"","b","\"","}","]","}","]","}">>),
      Json(<<"{","\"","o","u","t","p","u","t","_","t","e","x","t","\"",":","[","]",",","\"","c","h","o","i","c","e","s","\"",":","[","{","\"","m","e","s","s","a","g","e","\"",":","{","\"","c","o","n","t","e","n","t","\"",":","\"","c","\"","}","}","]","}">>),
      Json(<<"{","\"","o","u","t","p","u","t","_","t","e","x","t","\"",":","n","u","l","l",",","\"","o","u","t","p","u","t","\"",":","[","{","\"","c","o","n","t","e","n","t","\"",":","[","{","\"","t","e","x","t","\"",":","\""," ","b","\"","}",",","{","\"","t","e","x","t","\"",":","{","\"","v","a","l","u","e","\"",":","\"","v"," ","\"","}","}",",","n","u","l","l",",","\"","s","\"",",","{","\"","t","e","x","t","\"",":","5","}","]","}",",","n","u","l","l",",","{","\"","c","o","n","t","e","n","t","\"",":","\"","t","\"","}",",","{","\"","c","o","n","t","e","n","t","\"",":","[","{","\"","t","e","x","t","\"",":","\"","d","\"","}","]","}","]",",","\"","c","h","o","i","c","e","s","\"",":","[","{","\"","m","e","s","s","a","g","e","\"",":","{","\"","c","o","n","t","e","n","t","\"",":","\"","c","\"","}","}","]","}">>),
      Json(<<"{","\"","o","u","t","p","u","t","\"",":","[","{","\"","c","o","n","t","e","n","t","\"",":","[","{","\"","t","e","x","t","\"",":","\""," ","\"","}","]","}","]",",","\"","c","h","o","i","c","e","s","\"",":","[","{","\"","m","e","s","s","a","g","e","\"",":","{","\"","c","o","n","t","e","n","t","\"",":","\""," ","c"," ","\"","}","}","]","}">>),
      Json(<<"{","\"","o","u","t","p","u","t","\"",":","{","\"","c","o","n","t","e","n","t","\"",":","[","{","\"","t","e","x","t","\"",":","\"","b","\"","}","]","}",",","\"","c","h","o","i","c","e","s","\"",":","[","{","\"","m","e","s","s","a","g","e","\"",":","{","\"","c","o","n","t","e","n","t","\"",":","[","\""," ","c","\"",",","{","\"","t","e","x","t","\"",":","\"","d","\"","}",",","{","\"","d","e","l","t","a","\"",":","\"","e","\"","}",",","{","\"","t","e","x","t","\"",":","{","\"","v","a","l","u","e","\"",":","\"","f"," ","\"","}","}",",","n","u","l","l",",","3","]","}","}","]","}">>),
      Json(<<"{","\"","c","h","o","i","c","e","s","\"",":","[","]","}">>),
      Json(<<"{","\"","c","h","o","i","c","e","s","\"",":","5","}">>),
      Json(<<"{","\"","c","h","o","i","c","e","s","\"",":","[","n","u","l","l","]","}">>),
      Json(<<"{","\"","c","h","o","i","c","e","s","\"",":","[","{","\"","m","e","s","s","a","g","e","\"",":","n","u","l","l","}","]","}">>),
      Json(<<"{","\"","c","h","o","i","c","e","s","\"",":","[","{","\"","m","e","s","s","a","g","e","\"",":","{","\"","c","o","n","t","e","n","t","\"",":","7","}","}","]","}">>),
      Json(<<"{","\"","c","h","o","i","c","e","s","\"",":","{","\"","0","\"",":","{","\"","m","e","s","s","a","g","e","\"",":","{","\"","c","o","n","t","e","n","t","\"",":","\"","k","\"","}","}","}","}">>) }

ExtractInput(responseLike) == [kind |-> "extract", responseLike |-> responseLike]

\* extractAssistantContentFromResponses is applied to the body of a response
ExtractCall(responseLike) ==
    Apply(ExtractInput(responseLike),
          Result(Str(ExtractAssistantContentFromResponses(responseLike))))

NextMessages ==
    \/ \E model \in MessageModels, messages \in MessageLists :
            NormalizeMessagesCall(model, messages)
    \/ \E model \in MessageModels, messages \in MessageLists :
            ConvertCall(model, messages)
    \/ \E responseLike \in Responses : ExtractCall(responseLike)

SpecMessages == Init /\ [][NextMessages]_vars

\* ------------------------------------------------------------------ event payloads
\* The payloads of the data lines of a stream, as JSON text.
EventTexts ==
    { <<"n","u","l","l">>, <<"5">>, <<"\"","d","e","l","t","a","\"">>, <<"[","]">>, <<"{","}">>, <<"t","r","u","e">>,
      <<"{","\"","d","e","l","t","a","\"",":","\"","a","\"",",","\"","t","y","p","e","\"",":","\"","r","e","s","p","o","n","s","e",".","c","o","n","t","e","n","t","_","p","a","r","t",".","a","d","d","e","d","\"",",","\"","p","a","r","t","\"",":","{","\"","t","e","x","t","\"",":","\"","b","\"","}",",","\"","c","h","o","i","c","e","s","\"",":","[","{","\"","d","e","l","t","a","\"",":","{","\"","c","o","n","t","e","n","t","\"",":","\"","c","\"","}","}","]","}">>,
      <<"{","\"","t","y","p","e","\"",":","\"","r","e","s","p","o","n","s","e",".","o","u","t","p","u","t","_","t","e","x","t",".","d","e","l","t","a","\"",",","\"","d","e","l","t","a","\"",":","\"","a","\"",",","\"","c","h","o","i","c","e","s","\"",":","[","{","\"","d","e","l","t","a","\"",":","{","\"","c","o","n","t","e","n","t","\"",":","\"","c","\"","}","}","]","}">>,
      <<"{","\"","t","y","p","e","\"",":","\"","r","e","s","p","o","n","s","e",".","o","u","t","p","u","t","_","t","e","x","t",".","d","e","l","t","a","\"",",","\"","d","e","l","t","a","\"",":","5",",","\"","c","h","o","i","c","e","s","\"",":","[","{","\"","d","e","l","t","a","\"",":","{","\"","c","o","n","t","e","n","t","\"",":","\"","c","\"","}","}","]","}">>,
      <<"{","\"","t","y","p","e","\"",":","\"","r","e","s","p","o","n","s","e",".","o","u","t","p","u","t","_","t","e","x","t",".","d","e","l","t","a","\"",",","\"","d","e","l","t","a","\"",":","{","\"","t","e","x","t","\"",":","\"","t","\"","}","}">>,
      <<"{","\"","t","y","p","e","\"",":","\"","r","e","s","p","o","n","s","e",".","c","o","n","t","e","n","t","_","p","a","r","t",".","a","d","d","e","d","\"",",","\"","p","a","r","t","\"",":","{","\"","t","e","x","t","\"",":","\"","b","\"","}",",","\"","c","h","o","i","c","e","s","\"",":","[","{","\"","d","e","l","t","a","\"",":","{","\"","c","o","n","t","e","n","t","\"",":","\"","c","\"","}","}","]","}">>,
      <<"{","\"","t","y","p","e","\"",":","\"","r","e","s","p","o","n","s","e",".","c","o","n","t","e","n","t","_","p","a","r","t",".","a","d","d","e","d","\"",",","\"","p","a","r","t","\"",":","{","\"","t","e","x","t","\"",":","5","}",",","\"","c","h","o","i","c","e","s","\"",":","[","{","\"","d","e","l","t","a","\"",":","{","\"","c","o","n","t","e","n","t","\"",":","\"","c","\"","}","}","]","}">>,
      <<"{","\"","t","y","p","e","\"",":","\"","r","e","s","p","o","n","s","e",".","c","o","n","t","e","n","t","_","p","a","r","t",".","a","d","d","e","d","\"",",","\"","p","a","r","t","\"",":","n","u","l","l","}">>,
      <<"{","\"","t","y","p","e","\"",":","\"","r","e","s","p","o","n","s","e",".","c","o","n","t","e","n","t","_","p","a","r","t",".","a","d","d","e","d","\"",",","\"","d","e","l","t","a","\"",":","{","\"","t","e","x","t","\"",":","\"","t","\"","}","}">>,
      <<"{","\"","t","y","p","e","\"",":","\"","r","e","s","p","o","n","s","e",".","c","o","n","t","e","n","t","_","p","a","r","t",".","d","e","l","t","a","\"",",","\"","d","e","l","t","a","\"",":","{","\"","t","e","x","t","\"",":","\"","t","\"","}",",","\"","p","a","r","t","\"",":","{","\"","t","e","x","t","\"",":","\"","b","\"","}",",","\"","c","h","o","i","c","e","s","\"",":","[","{","\"","d","e","l","t","a","\"",":","{","\"","c","o","n","t","e","n","t","\"",":","\"","c","\"","}","}","]","}">>,
      <<"{","\"","t","y","p","e","\"",":","\"","r","e","s","p","o","n","s","e",".","c","o","n","t","e","n","t","_","p","a","r","t",".","d","e","l","t","a","\"",",","\"","d","e","l","t","a","\"",":","{","\"","t","e","x","t","\"",":","5","}",",","\"","c","h","o","i","c","e","s","\"",":","[","{","\"","d","e","l","t","a","\"",":","{","\"","c","o","n","t","e","n","t","\"",":","\"","c","\"","}","}","]","}">>,
      <<"{","\"","t","y","p","e","\"",":","\"","r","e","s","p","o","n","s","e",".","c","o","n","t","e","n","t","_","p","a","r","t",".","d","e","l","t","a","\"",",","\"","d","e","l","t","a","\"",":","n","u","l","l","}">>,
      <<"{","\"","t","y","p","e","\"",":","\"","r","e","s","p","o","n","s","e",".","c","o","n","t","e","n","t","_","p","a","r","t",".","d","e","l","t","a","\"",",","\"","p","a","r","t","\"",":","{","\"","t","e","x","t","\"",":","\"","b","\"","}","}">>,
      <<"{","\"","p","a","r","t","\"",":","{","\"","t","e","x","t","\"",":","\"","b","\"","}","}">>,
      <<"{","\"","d","e","l","t","a","\"",":","\"","\"","}">>,
      <<"{","\"","c","h","o","i","c","e","s","\"",":","[","{","\"","d","e","l","t","a","\"",":","{","\"","c","o","n","t","e","n","t","\"",":","\"","c","\"","}","}",",","{","\"","d","e","l","t","a","\"",":","{","\"","c","o","n","t","e","n","t","\"",":","\"","d","\"","}","}","]","}">>,
      <<"{","\"","c","h","o","i","c","e","s","\"",":","[","{","\"","d","e","l","t","a","\"",":","{","\"","c","o","n","t","e","n","t","\"",":","[","\"","c","\"",",","{","\"","t","e","x","t","\"",":","\"","d","\"","}",",","{","\"","d","e","l","t","a","\"",":","\"","e","\"","}",",","{","\"","t","e","x","t","\"",":","{","\"","v","a","l","u","e","\"",":","\"","f","\"","}","}",",","n","u","l","l",",","3",",","{","\"","t","e","x","t","\"",":","7",",","\"","d","e","l","t","a","\"",":","\"","g","\"","}","]","}","}","]","}">>,
      <<"{","\"","c","h","o","i","c","e","s","\"",":","[","{","\"","d","e","l","t","a","\"",":","{","\"","c","o","n","t","e","n","t","\"",":","[","]","}","}","]","}">>,
      <<"{","\"","c","h","o","i","c","e","s","\"",":","[","{","\"","d","e","l","t","a","\"",":","{","\"","c","o","n","t","e","n","t","\"",":","5","}","}","]","}">>,
      <<"{","\"","c","h","o","i","c","e","s","\"",":","[","{","\"","d","e","l","t","a","\"",":","{","}","}","]","}">>,
      <<"{","\"","c","h","o","i","c","e","s","\"",":","[","{","\"","m","e","s","s","a","g","e","\"",":","{","\"","c","o","n","t","e","n","t","\"",":","\"","m","\"","}","}","]","}">>,
      <<"{","\"","c","h","o","i","c","e","s","\"",":","[","n","u","l","l","]","}">>,
      <<"{","\"","c","h","o","i","c","e","s","\"",":","[","]","}">>,
      <<"{","\"","c","h","o","i","c","e","s","\"",":","\"","c","\"","}">>,
      <<"{","\"","c","h","o","i","c","e","s","\"",":","{","\"","0","\"",":","{","\"","d","e","l","t","a","\"",":","{","\"","c","o","n","t","e","n","t","\"",":","\"","k","\"","}","}","}","}">>,
      <<"{","\"","c","o","n","t","e","n","t","\"",":","\"","c","\"","}">>,
      <<"{","\"","t","y","p","e","\"",":","\"","r","e","s","p","o","n","s","e",".","c","r","e","a","t","e","d","\"",",","\"","r","e","s","p","o","n","s","e","\"",":","{","\"","i","d","\"",":","\"","r","\"","}","}">> }

\* The line of a payload, and the chunks read before it.
DataLine(text) == DataPrefix \o <<" ">> \o text \o <<LF>>
Preludes == { <<>>, <<ChunkHel>>, <<ChunkHel, ChunkLo>>, <<ChunkHalf, ChunkRest>> }

NextEvents ==
    \E prelude \in Preludes, text \in EventTexts :
        ProcessStream(Append(prelude, DataLine(text)))

SpecEvents == Init /\ [][NextEvents]_vars

\* ------------------------------------------------------------------ key validation
\* String(n) for a natural number
RECURSIVE DecimalText(_)
DecimalText(n) ==
    IF n < 10 THEN << <<"0", "1", "2", "3", "4", "5", "6", "7", "8", "9">>[n + 1] >>
    ELSE DecimalText(n \div 10) \o DecimalText(n % 10)

\* What fetch gives: a rejection, or a response with a status and a body.
NetworkFailure == [kind |-> "rejected"]
HttpResponse(status, body) == [kind |-> "response", body |-> body, status |-> status]
\* response.ok
Ok(response) ==
    response.kind = "response" /\ response.status >= 200 /\ response.status <= 299

\* The keys given and the answers of the metadata endpoint.
Keys ==
    { Undefined, Null, Str(<<>>), Str(<<"s","k","-">>), Str(<<"s","k","-","a","b","c">>), Str(<<"p","k","-","a","b","c">>), Str(<<"s","k">>),
      Str(<<" ","s","k","-","a">>), Str(<<"S","K","-","a","b","c">>), Num(5), True, Obj(<<>>), Arr(<<Str(<<"s","k","-","a","b","c">>)>>) }
ErrorBodies ==
    { <<>>, <<"n","u","l","l">>, <<"{","}">>, <<"5">>, <<"\"","s","k","\"">>, <<"<","h","t","m","l",">">>, <<"{","\"","e","r","r","o","r","\"",":","n","u","l","l","}">>, <<"{","\"","e","r","r","o","r","\"",":","\"","d","e","n","i","e","d","\"","}">>,
      <<"{","\"","e","r","r","o","r","\"",":","{","\"","m","e","s","s","a","g","e","\"",":","\"","b","a","d"," ","k","e","y","\"","}","}">>, <<"{","\"","e","r","r","o","r","\"",":","{","\"","m","e","s","s","a","g","e","\"",":","\"","\"","}","}">>,
      <<"{","\"","e","r","r","o","r","\"",":","{","\"","m","e","s","s","a","g","e","\"",":","7","}","}">>, <<"{","\"","e","r","r","o","r","\"",":","{","\"","c","o","d","e","\"",":","\"","x","\"","}","}">>, <<"{","\"","m","e","s","s","a","g","e","\"",":","\"","t","o","p","\"","}">> }
Answers ==
    {NetworkFailure, HttpResponse(200, <<"{","\"","d","a","t","a","\"",":","[","]","}">>), HttpResponse(204, <<>>)}
        \cup { HttpResponse(status, body) : status \in {401, 500}, body \in ErrorBodies }

ValidateInput(key, answer) == [kind |-> "validateApiKey", key |-> key, answer |-> answer]
FetchModels(key) ==
    << [ch |-> "fetch", url |-> <<"h","t","t","p","s",":","/","/","a","p","i",".","o","p","e","n","a","i",".","c","o","m","/","v","1","/","m","o","d","e","l","s">>,
        authorization |-> <<"B","e","a","r","e","r"," ">> \o key.chars] >>
Failure(error) == Obj(<<Member(<<"s","u","c","c","e","s","s">>, False), Member(<<"e","r","r","o","r">>, error)>>)
Success == Obj(<<Member(<<"s","u","c","c","e","s","s">>, True)>>)

\* A format check that passes every string.
IsAnyString(key) == IsString(key)

\* The local check of validateApiKey: a non-empty string that starts with 'sk-'
HasKeyFormat(key) == Truthy(key) /\ IsString(key) /\ StartsWith(key.chars, <<"s","k","-">>)

\* OpenAIProvider.validateApiKey(key), the endpoint answering with `answer`:
\* what it resolves with. Reading a property of null throws inside the try.
ValidateApiKey(key, answer) ==
    LET errorData == IF JSONParse(answer.body).ok THEN JSONParse(answer.body).value ELSE Obj(<<>>)
        error == Get(errorData, <<"e","r","r","o","r">>)
        message == IF error \in {Null, Undefined} THEN Undefined ELSE Get(error, <<"m","e","s","s","a","g","e">>)
    IN  IF ~HasKeyFormat(key)
        THEN Failure(Str(<<"I","n","v","a","l","i","d"," ","O","p","e","n","A","I"," ","A","P","I"," ","k","e","y"," ","f","o","r","m","a","t",".">>))
        ELSE IF answer = NetworkFailure \/ (~Ok(answer) /\ errorData = Null)
             THEN Failure(Str(<<"A"," ","n","e","t","w","o","r","k"," ","e","r","r","o","r"," ","o","c","c","u","r","r","e","d"," ","d","u","r","i","n","g"," ","v","a","l","i","d","a","t","i","o","n",".">>))
        ELSE IF Ok(answer) THEN Success
        ELSE Failure(IF Truthy(message) THEN message
                     ELSE Str(<<"V","a","l","i","d","a","t","i","o","n"," ","f","a","i","l","e","d"," ","w","i","t","h"," ","s","t","a","t","u","s",":"," ">> \o DecimalText(answer.status)))

\* The requests validateApiKey makes.
ValidateApiKeyRequests(key) == IF HasKeyFormat(key) THEN FetchModels(key) ELSE <<>>

ValidateCall(key, answer) ==
    Apply(ValidateInput(key, answer),
          ValidateApiKeyRequests(key) \o Result(ValidateApiKey(key, answer)))

NextValidate == \E key \in Keys, answer \in Answers : ValidateCall(key, answer)

SpecValidate == Init /\ [][NextValidate]_vars

\* ------------------------------------------------------------------ overlapping toggles
\* toggleAllWindowsVisibility() up to its await: the target is computed from the
\* flag as it is now and the request emitted; registerShortcuts is entered with
\* the argument the flag selects and suspends in `await this.loadKeybinds()`.
ToggleCall(c) == [kind |-> "toggleAllWindowsVisibility", call |-> c]
ToggleStart(c) ==
    /\ toggles[c].pc = "new"
    /\ \A b \in Calls : b < c => toggles[b].pc # "new"
    /\ \E s \in registered : s.callback = ToggleAll
    /\ toggles' = [toggles EXCEPT ![c] = [pc |-> "loadKeybinds",
                                      targetVisibility |-> ~allWindowVisibility,
                                      registerOnlyToggleVisibility |-> allWindowVisibility]]
    /\ input' = ToggleCall(c)
    /\ sent' = RequestToggleAll(toggles'[c].targetVisibility)
    /\ UNCHANGED <<askVars, sttVars, shortcutVars, notifyVars>>

\* The rest of the call once loadKeybinds has resolved: the registration, and
\* the flag negated as it is then.
ToggleFinish(c) ==
    /\ toggles[c].pc = "loadKeybinds"
    /\ RegisterShortcuts(Registration("toggleAllWindowsVisibility", toggles[c].registerOnlyToggleVisibility),
                         toggles[c].registerOnlyToggleVisibility, headerState, keybinds, <<>>)
    /\ allWindowVisibility' = ~allWindowVisibility
    /\ toggles' = [toggles EXCEPT ![c].pc = "done"]
    /\ UNCHANGED headerState

NextOverlap ==
    \/ \E c \in Calls : ToggleStart(c)
    \/ \E c \in Calls : ToggleFinish(c)
    \/ \E header \in HeaderStates : Reregister(header)

SpecOverlap == Init /\ [][NextOverlap]_vars

\* ------------------------------------------------------------------ chunk partitions
\* The whole text of a response stream: two token lines; a token line and a
\* last line that no line feed ends; a line that is no data line and a token
\* in an array content.
TextHello == Join(<<<<"d","a","t","a",":","{","\"","d","e","l","t","a","\"",":","\"","H","e","l","\"","}">>, <<LF>>, <<"d","a","t","a",":","{","\"","d","e","l","t","a","\"",":","\"","l","o","\"","}">>, <<LF>>>>)
TextOpenEnd == Join(<<<<"d","a","t","a",":","{","\"","d","e","l","t","a","\"",":","\"","H","e","l","l","o","\"","}">>, <<LF>>, <<"d","a","t","a",":","{","\"","d","e","l","t","a","\"",":","\"","x","\"","}">>>>)
TextMixed == Join(<<<<":"," ","o","k">>, <<LF>>, <<"d","a","t","a",":"," ","{","\"","c","h","o","i","c","e","s","\"",":","[","{","\"","d","e","l","t","a","\"",":","{","\"","c","o","n","t","e","n","t","\"",":","[","\"","b","\"","]","}","}","]","}">>, <<LF>>>>)
StreamTexts == {TextHello, TextOpenEnd, TextMixed}

\* The chunks a reader delivers that cuts the text after its i-th and its j-th
\* character; a reader delivers no empty chunk.
Pieces(text, i, j) ==
    SelectSeq(<<SubSeq(text, 1, i), SubSeq(text, i + 1, j), SubSeq(text, j + 1, Len(text))>>,
              LAMBDA chunk : chunk # <<>>)

\* The first request of a run: its stream arrives cut in up to three chunks.
ProcessPartition(text, i, j) ==
    /\ input = NoInput
    /\ ProcessStream(Pieces(text, i, j))

NextPartition ==
    \E text \in StreamTexts : \E i \in 0..Len(text) : \E j \in i..Len(text) :
        ProcessPartition(text, i, j)

SpecPartition == Init /\ [][NextPartition]_vars

\* ------------------------------------------------------------------ window notifications
\* NOTIFICATION_CONFIG.DEBOUNCE_DELAY
DEBOUNCE_DELAY == 300

\* The events settingsService notifies and the data it sends with them.
NotifyEvents == {"settings-updated", "presets-updated"}
NotifyData == {Null, Str(<<"a">>), Str(<<"b">>)}

\* setTimeout(callback, delay): a timer with the event and data its callback
\* closes over; its id is one no timer and no map entry holds.
Timer(id, event, data, due) == [data |-> data, id |-> id, event |-> event, due |-> due]
Pending(event, id) == [id |-> id, event |-> event]
IdsInUse == {t.id : t \in timers} \cup {p.id : p \in pendingNotifications}
FreshId == CHOOSE id \in 1..(Cardinality(IdsInUse) + 1) : id \notin IdsInUse

\* sendToTargetWindows(event, data, windowTypes) with `relevant` relevant windows
SendToTargetWindows(event, data, relevant) ==
    [w \in 1..relevant |->
        [ch |-> "webContents.send", event |-> event,
         args |-> IF Truthy(data) THEN <<data>> ELSE <<>>]]

NotifyStep(given, out) ==
    /\ input' = given
    /\ sent' = out
    /\ UNCHANGED <<state, abortController, rq, pc, winAvail, observed,
                   sttVars, shortcutVars, toggles>>

\* A debounce that sets the new timer and leaves the one it replaces running.
DebounceWithoutClear(pending, running, key, data, delay) ==
    [pending |-> {p \in pending : p.event # key} \cup {Pending(key, FreshId)},
     running |-> running \cup {Timer(FreshId, key, data, now + delay)}]

\* debounceNotification(key, fn, delay): the timers and the map it leaves
DebounceNotification(pending, running, key, data, delay) ==
    LET cleared == {t \in running : \A p \in pending : p.event = key => t.id # p.id}
    IN  [pending |-> {p \in pending : p.event # key} \cup {Pending(key, FreshId)},
         running |-> cleared \cup {Timer(FreshId, key, data, now + delay)}]

\* notifyRelevantWindows(event, data, { debounce }) with `relevant` relevant windows
NotifyRelevantWindows(event, data, debounce, relevant) ==
    /\ IF debounce > 0
       THEN /\ pendingNotifications' =
                   DebounceNotification(pendingNotifications, timers, event, data, debounce).pending
            /\ timers' =
                   DebounceNotification(pendingNotifications, timers, event, data, debounce).running
            /\ NotifyStep([kind |-> "notify", data |-> data, event |-> event, debounce |-> debounce],
                          <<>>)
       ELSE /\ NotifyStep([kind |-> "notify", data |-> data, event |-> event, debounce |-> debounce],
                          SendToTargetWindows(event, data, relevant))
            /\ UNCHANGED notifyVars
    /\ UNCHANGED now

\* The callback of a timer that is due: fn() and pendingNotifications.delete(key)
TimerFires(t, relevant) ==
    /\ t \in timers
    /\ t.due <= now
    /\ timers' = timers \ {t}
    /\ pendingNotifications' = {p \in pendingNotifications : p.event # t.event}
    /\ NotifyStep([kind |-> "timer", data |-> t.data, id |-> t.id, event |-> t.event],
                  SendToTargetWindows(t.event, t.data, relevant))
    /\ UNCHANGED now

\* cleanup()
Cleanup ==
    /\ timers' = {t \in timers : \A p \in pendingNotifications : t.id # p.id}
    /\ pendingNotifications' = {}
    /\ NotifyStep([kind |-> "cleanup"], <<>>)
    /\ UNCHANGED now

\* Time passes.
Elapse(ms) ==
    /\ now + ms <= MaxClock
    /\ now' = now + ms
    /\ NotifyStep([kind |-> "elapse", ms |-> ms], <<>>)
    /\ UNCHANGED notifyVars

NextNotify ==
    \/ \E event \in NotifyEvents, data \in NotifyData, debounce \in {0, DEBOUNCE_DELAY},
          relevant \in 0..1 : NotifyRelevantWindows(event, data, debounce, relevant)
    \/ \E t \in timers, relevant \in 0..1 : TimerFires(t, relevant)
    \/ Cleanup
    \/ \E ms \in {100, DEBOUNCE_DELAY} : Elapse(ms)

SpecNotify == Init /\ [][NextNotify]_vars

\* ------------------------------------------------------------------ stored keybinds
\* getDefaultKeybinds() and getLegacyDefaultKeybinds() as maps, for three of the
\* default actions: one with a legacy default and retired accelerators, one with
\* a legacy default, one without; and an action outside the default set.
DefaultActions == {"toggleVisibility", "nextStep", "toggleListen"}
StoredActions == DefaultActions \cup {"customAction"}
GetDefaultKeybinds ==
    [action \in DefaultActions |->
        CASE action = "toggleVisibility" -> DefaultToggleVisibility
          [] action = "nextStep" -> DefaultNextStep
          [] action = "toggleListen" -> IF IsMac THEN "Cmd+Alt+L" ELSE "Ctrl+Alt+L"]
GetLegacyDefaultKeybinds ==
    [action \in {"toggleVisibility", "nextStep"} |->
        CASE action = "toggleVisibility" -> LegacyToggleVisibility
          [] action = "nextStep" -> IF IsMac THEN "Cmd+Enter" ELSE "Ctrl+Enter"]

\* The accelerators a row of the repository holds for an action.
StoredAccelerators(action) ==
    CASE action = "toggleVisibility" ->
             {"", "Ctrl+Alt+H", "Ctrl+\\", "Cmd+\\", "Ctrl+Alt+Shift+H", "Cmd+Alt+Shift+H", "Ctrl+Alt+V"}
      [] action = "nextStep" -> {"", "Ctrl+Alt+A", "Ctrl+Enter", "Ctrl+Alt+V"}
      [] action = "toggleListen" -> {"", "Ctrl+Alt+L", "Ctrl+Enter"}
      [] action = "customAction" -> {"Ctrl+Alt+Q"}
\* getAllKeybinds(): the rows of the repository, one per action, as a map
StoredKeybinds ==
    UNION { { rows \in [actions -> UNION {StoredAccelerators(a) : a \in StoredActions}] :
                \A a \in actions : rows[a] \in StoredAccelerators(a) } :
            actions \in SUBSET StoredActions }

\* saveKeybinds(newKeybinds) on a repository that holds `rows`: every entry is
\* upserted under its action
SaveKeybinds(rows, newKeybinds) ==
    [action \in DOMAIN rows \cup DOMAIN newKeybinds |->
        IF action \in DOMAIN newKeybinds THEN newKeybinds[action] ELSE rows[action]]

\* The accelerator of a default action after the loop of loadKeybinds that does
\* not look at the legacy defaults.
LoadedKeepsLegacy(rows, action) ==
    IF action \notin DOMAIN rows \/ rows[action] = "" THEN GetDefaultKeybinds[action]
    ELSE IF action = "toggleVisibility" /\ rows[action] \in {"Ctrl+Alt+Shift+H", "Cmd+Alt+Shift+H"}
         THEN GetDefaultKeybinds[action]
    ELSE rows[action]

\* The accelerator of a default action after the loop of loadKeybinds
Loaded(rows, action) ==
    IF action \notin DOMAIN rows \/ rows[action] = "" THEN GetDefaultKeybinds[action]
    ELSE IF action \in DOMAIN GetLegacyDefaultKeybinds
            /\ rows[action] = GetLegacyDefaultKeybinds[action]
         THEN GetDefaultKeybinds[action]
    ELSE IF action = "toggleVisibility" /\ rows[action] \in {"Ctrl+Alt+Shift+H", "Cmd+Alt+Shift+H"}
         THEN GetDefaultKeybinds[action]
    ELSE rows[action]

\* loadKeybinds() on a repository that holds `rows`: the map it returns, whether
\* it saved, and the rows afterwards
LoadAllKeybinds(rows) ==
    IF DOMAIN rows = {}
    THEN [keybinds |-> GetDefaultKeybinds, saved |-> TRUE,
          rows |-> SaveKeybinds(rows, GetDefaultKeybinds)]
    ELSE LET loaded == [action \in DOMAIN rows \cup DefaultActions |->
                           IF action \in DefaultActions THEN Loaded(rows, action)
                           ELSE rows[action]]
             needsUpdate == \E action \in DefaultActions :
                               action \notin DOMAIN rows \/ Loaded(rows, action) # rows[action]
         IN  [keybinds |-> loaded, saved |-> needsUpdate,
              rows |-> IF needsUpdate THEN SaveKeybinds(rows, loaded) ELSE rows]

LoadKeybindsInput(rows) == [kind |-> "loadKeybinds", rows |-> rows]
UpsertKeybinds(newKeybinds) == << [keybinds |-> newKeybinds, ch |-> "upsertKeybinds"] >>
LoadKeybindsCall(rows) ==
    Apply(LoadKeybindsInput(rows),
          (IF LoadAllKeybinds(rows).saved
           THEN UpsertKeybinds(LoadAllKeybinds(rows).keybinds) ELSE <<>>)
              \o Result(LoadAllKeybinds(rows).keybinds))

NextKeybinds == \E rows \in StoredKeybinds : LoadKeybindsCall(rows)

SpecKeybinds == Init /\ [][NextKeybinds]_vars

\* ------------------------------------------------------------------ preset repository
\* The operations of settingsRepositoryAdapter that go through
\* withFirebaseFallback, what authService.getCurrentUser() gives, and how an
\* operation of a repository ends.
PresetOperations ==
    {"getPresets", "getPresetTemplates", "createPreset", "updatePreset", "deletePreset"}
CurrentUsers ==
    { Null, Undefined, Obj(<<>>), Obj(<<Member(<<"i","s","L","o","g","g","e","d","I","n">>, False)>>),
      Obj(<<Member(<<"i","s","L","o","g","g","e","d","I","n">>, True)>>), Obj(<<Member(<<"i","s","L","o","g","g","e","d","I","n">>, Str(<<"y","e","s">>))>>) }
Fulfils(value) == [value |-> value, settled |-> "resolved"]
Rejects(error) == [value |-> error, settled |-> "rejected"]
FirebaseOutcomes == { Fulfils("cloud rows"), Rejects("cloud error"), Rejects("cloud threw") }
SqliteOutcomes == { Fulfils("local rows"), Rejects("local error") }

FirebaseOp(operationName) == << [ch |-> "firebaseRepository", operation |-> operationName] >>
SqliteOp(operationName) == << [ch |-> "sqliteRepository", operation |-> operationName] >>
Settles(outcome) == << [ch |-> "settled", outcome |-> outcome] >>

\* withFirebaseFallback without the catch: the failure of the cloud is the
\* failure of the call.
WithFirebaseOnly(operationName, user, firebase, sqlite) ==
    IF Truthy(user) /\ Truthy(Get(user, <<"i","s","L","o","g","g","e","d","I","n">>))
    THEN FirebaseOp(operationName) \o Settles(firebase)
    ELSE SqliteOp(operationName) \o Settles(sqlite)

\* withFirebaseFallback(operationName, firebaseOp, sqliteOp): the operations it
\* runs and how the promise it returns settles
WithFirebaseFallback(operationName, user, firebase, sqlite) ==
    IF Truthy(user) /\ Truthy(Get(user, <<"i","s","L","o","g","g","e","d","I","n">>))
    THEN IF firebase.settled = "resolved"
         THEN FirebaseOp(operationName) \o Settles(firebase)
         ELSE FirebaseOp(operationName) \o SqliteOp(operationName) \o Settles(sqlite)
    ELSE SqliteOp(operationName) \o Settles(sqlite)

PresetInput(operationName, user, firebase, sqlite) ==
    [kind |-> "preset", operation |-> operationName, user |-> user,
     firebase |-> firebase, sqlite |-> sqlite]
\* An operation of settingsRepositoryAdapter is called.
PresetCall(operationName, user, firebase, sqlite) ==
    Apply(PresetInput(operationName, user, firebase, sqlite),
          WithFirebaseFallback(operationName, user, firebase, sqlite))

NextPresets ==
    \E operationName \in PresetOperations, user \in CurrentUsers,
       firebase \in FirebaseOutcomes, sqlite \in SqliteOutcomes :
          PresetCall(operationName, user, firebase, sqlite)

SpecPresets == Init /\ [][NextPresets]_vars

\* ------------------------------------------------------------------ properties
Messages_(out) == {out[i] : i \in 1..Len(out)}
Superseded(r) == rq[r].aborted /\ rq[r].reason = "New request received."
TextOf(r, text) == \E j \in 1..Len(text) : text[j] = r \/ text[j] = 0 - r

\* C1: a sendMessage call made while the previous request is streaming cancels
\* that request (every request followed by a newer one is aborted), and no state
\* broadcast made by a request after it was superseded while streaming carries text
\* that request accumulated.
C1_SupersededStreamIsSilent ==
    /\ \A r \in Reqs : (\E q \in Reqs : q > r /\ pc[q] # "new") => rq[r].aborted
    /\ \A m \in Messages_(StateUpdates(sent)) :
         (m.by \in Reqs /\ Superseded(m.by) /\ rq[m.by].cancelled)
            => ~TextOf(m.by, m.state.currentResponse)

\* C2: a request superseded before its stream reader existed never reads a
\* stream, and no two requests read a stream that was not cancelled.
C2_OneActiveRequest ==
    /\ \A r \in Reqs : ~(pc[r] = "read" /\ Superseded(r) /\ ~rq[r].cancelled)
    /\ Cardinality({r \in Reqs : pc[r] = "read" /\ ~rq[r].cancelled}) <= 1

\* C3: a call that returns after its stream processing started has saved an
\* assistant message exactly once if its final text is non-empty and never if it
\* is empty, a call whose stream processing never started has saved none, and
\* every assistant message saved carries the final text.
C3_PersistsExactlyOnce ==
    /\ \A m \in Messages_(Returns(sent)) :
         m.call.saves = IF m.call.listener /\ m.call.fullResponse # <<>> THEN 1 ELSE 0
    /\ \A m \in Messages_(RepositoryWrites(sent)) :
         m.role = "assistant" =>
            /\ m.content # <<>>
            /\ m.content = rq[m.by].fullResponse
            /\ rq[m.by].saves = 1
    /\ \A r \in Reqs : rq[r].saves <= 1

\* A read loop that threw after accumulating text: the error is reported and the
\* text is handed to the repository in the same step.
C3_Witness ==
    \E r \in Reqs :
        /\ pc[r] = "persist"
        /\ StreamErrors(sent) # <<>>
        /\ \E m \in Messages_(RepositoryWrites(sent)) : m.by = r /\ m.role = "assistant"

\* C4: once every sendMessage call made has returned, the orchestrator is idle
\* (isLoading and isStreaming are false) and, if the ask window exists, the window
\* has received that state.
C4_TerminalIdle ==
    ((\A r \in Reqs : pc[r] \in {"new", "done"}) /\ (\E r \in Reqs : pc[r] = "done"))
        => /\ ~state.isLoading
           /\ ~state.isStreaming
           /\ winAvail => observed = state

\* C5: closeAskWindow aborts the controller it holds with the reason 'Window
\* closed by user' whatever await that call is suspended at, clears the slot,
\* resets the six session fields, keeps the voice-draft triple, broadcasts the
\* state once and requests the ask window hidden.
C5_CloseResetsButKeepsDraft ==
    [][CloseAskWindow =>
        /\ abortController' = 0
        /\ abortController # 0 =>
              /\ rq'[abortController].aborted
              /\ ~rq[abortController].aborted =>
                    rq'[abortController].reason = "Window closed by user"
        /\ state'.isVisible = FALSE
        /\ state'.isLoading = FALSE
        /\ state'.isStreaming = FALSE
        /\ state'.currentQuestion = <<>>
        /\ state'.currentResponse = <<>>
        /\ state'.showTextInput = TRUE
        /\ state'.voiceDraft = state.voiceDraft
        /\ state'.voiceSpeaker = state.voiceSpeaker
        /\ state'.voiceDraftTimestamp = state.voiceDraftTimestamp
        /\ winAvail => /\ Len(StateUpdates(sent')) = 1
                       /\ StateUpdates(sent')[1].state = state'
        /\ Len(VisibilityRequests(sent')) = 1
        /\ VisibilityRequests(sent')[1].visible = FALSE
    ]_vars

\* A close that found a request in flight and a voice draft in the state.
C5_Witness ==
    /\ \E r \in Reqs : pc[r] \notin {"new", "done"} /\ rq[r].reason = "Window closed by user"
    /\ state.voiceDraft # <<>>
    /\ state.voiceSpeaker = "Me"
    /\ abortController = 0
    /\ \E m \in Messages_(VisibilityRequests(sent)) : ~m.visible

\* C6: no 'ask-response-stream-error' event is sent for a request whose signal
\* is aborted, and an aborted request whose stream processing started still
\* saves the text it accumulated.
C6_CancellationIsNoError ==
    /\ \A m \in Messages_(StreamErrors(sent)) : ~rq[m.by].aborted
    /\ \A m \in Messages_(Returns(sent)) :
         (m.call.aborted /\ m.call.listener /\ m.call.fullResponse # <<>>)
            => m.call.saves = 1

\* C7: the step in which a repository call of a request rejects sends no
\* 'ask-response-stream-error' event, leaves currentResponse as it was and, unless
\* the call was the final save, does not end the request.
C7_PersistenceFailureOnlyLogged ==
    [][\A r \in Reqs :
        (pc[r] # pc'[r] /\ input'.kind = "rejected" /\ input'.message = RepositoryError)
            => /\ StreamErrors(sent') = <<>>
               /\ state'.currentResponse = state.currentResponse
               /\ pc[r] \in {"session", "saveUser"} => pc'[r] # "done"
    ]_vars

\* ---- what a chunk holds, read off its lines
IsErrorEvent(ev) == ev.data /\ ev.type \in {"error", "response.failed"}
HasErrorEvent(chunk) == \E i \in 1..Len(chunk) : IsErrorEvent(chunk[i])
BeforeError(chunk) ==
    SubSeq(chunk, 1,
           (CHOOSE i \in 1..Len(chunk) :
                IsErrorEvent(chunk[i]) /\ \A j \in 1..(i - 1) : ~IsErrorEvent(chunk[j])) - 1)
ErrorEvent(chunk) == chunk[Len(BeforeError(chunk)) + 1]
ErrorMessage(ev) ==
    IF ev.message # <<>> THEN ev.message
    ELSE IF ev.type = "error" THEN UnknownStreamingError ELSE ResponseFailed
RECURSIVE TokensOf(_, _)
TokensOf(r, lines) ==
    IF lines = <<>> THEN <<>>
    ELSE (IF Head(lines).data THEN Tag(r, Head(lines).delta) ELSE <<>>)
            \o TokensOf(r, Tail(lines))
RECURSIVE SnapshotOf(_, _)
SnapshotOf(r, lines) ==
    IF lines = <<>> THEN <<>>
    ELSE IF Head(lines).data /\ Trim(Head(lines).outputText) # <<>>
         THEN SnapshotTag(r, Trim(Head(lines).outputText))
         ELSE SnapshotOf(r, Tail(lines))

\* Request r read a chunk holding an error event, its signal not aborted and the
\* ask window there: processing stops, `kept` is the final currentResponse and is
\* saved once if non-empty, and one stream-error event carries the event's message.
ErrorEventKeeps(r, kept) ==
    /\ pc'[r] # "read"
    /\ state'.currentResponse = kept
    /\ Len(RepositoryWrites(sent')) = IF kept # <<>> THEN 1 ELSE 0
    /\ \A m \in Messages_(RepositoryWrites(sent')) :
         m.by = r /\ m.role = "assistant" /\ m.content = kept
    /\ Len(StreamErrors(sent')) = 1
    /\ StreamErrors(sent')[1].error = ErrorMessage(ErrorEvent(input'.chunk))
    /\ StateUpdates(sent') # <<>>
    /\ StateUpdates(sent')[Len(StateUpdates(sent'))].state = state'

ReadErrorEvent(r) ==
    /\ input'.kind = "chunk"
    /\ rq'[r] # rq[r]
    /\ HasErrorEvent(input'.chunk)
    /\ ~rq[r].aborted
    /\ winAvail

\* C8 (as stated): when a request that is not cancelled decodes an error event,
\* processing stops there, currentResponse is the text of the tokens that came
\* before the event, that text is saved if non-empty, and exactly one stream-error
\* event with the event's message is sent.
C8_ErrorEventKeepsTokens ==
    [][\A r \in Reqs :
        ReadErrorEvent(r) =>
            ErrorEventKeeps(r, rq[r].fullResponse \o TokensOf(r, BeforeError(input'.chunk)))
    ]_vars

\* C8 (amended): the same, with the text kept being the text of the tokens that
\* came before the event or, when no token came before it, the completed-response
\* snapshot that came before it.
C8_ErrorEventKeepsTokensOrSnapshot ==
    [][\A r \in Reqs :
        ReadErrorEvent(r) =>
            LET tokens == rq[r].fullResponse \o TokensOf(r, BeforeError(input'.chunk))
                snapshot == IF rq[r].completedText # <<>> THEN rq[r].completedText
                            ELSE SnapshotOf(r, BeforeError(input'.chunk))
            IN  ErrorEventKeeps(r, IF tokens # <<>> THEN tokens ELSE snapshot)
    ]_vars

\* An error event behind a token: the error is reported and the token's text saved.
C8_Witness ==
    /\ input.kind = "chunk"
    /\ HasErrorEvent(input.chunk)
    /\ TokensOf(1, BeforeError(input.chunk)) # <<>>
    /\ StreamErrors(sent) # <<>>
    /\ \E m \in Messages_(RepositoryWrites(sent)) :
         m.role = "assistant" /\ m.content = state.currentResponse /\ TextOf(m.by, m.content)

RetryKeywords ==
    { <<"v","i","s","i","o","n">>,
      <<"i","m","a","g","e">>,
      <<"m","u","l","t","i","m","o","d","a","l">>,
      <<"u","n","s","u","p","p","o","r","t","e","d">>,
      <<"i","m","a","g","e","_","u","r","l">>,
      <<"4","0","0">>,
      <<"i","n","v","a","l","i","d">>,
      <<"n","o","t"," ","s","u","p","p","o","r","t","e","d">> }

\* The step took request r to the error path: idle with the input shown, no
\* provider request, the call returning an error.
ToErrorPath(r) ==
    /\ pc'[r] = "done"
    /\ ~state'.isLoading /\ ~state'.isStreaming /\ state'.showTextInput
    /\ ProviderRequests(sent') = <<>>
    /\ \E m \in Messages_(Returns(sent')) : m.by = r /\ m.result = "error"

\* C9: when the await of the first provider request ends, a second provider
\* request follows if and only if the first was rejected, a screenshot was
\* attached and the lower-cased message contains one of the keywords; a rejection
\* that is not retried goes to the error path.
C9_RetryIffImageAndKeyword ==
    [][\A r \in Reqs :
        (pc[r] = "connect" /\ pc'[r] # "connect") =>
            LET failed == input'.kind = "rejected"
                matches == /\ failed
                           /\ \E k \in RetryKeywords : Includes(ToLowerCase(input'.message), k)
                retried == /\ pc'[r] = "retry"
                           /\ \E m \in Messages_(ProviderRequests(sent')) : m.by = r
            IN  /\ retried <=> (failed /\ rq[r].screenshot /\ matches)
                /\ (~retried) => ProviderRequests(sent') = <<>>
                /\ (failed /\ ~retried) => ToErrorPath(r)
    ]_vars

\* A rejected first request that was retried.
C9_Witness ==
    \E r \in Reqs :
        /\ pc[r] = "retry"
        /\ rq[r].screenshot
        /\ input.kind = "rejected"
        /\ \E m \in Messages_(ProviderRequests(sent)) : m.by = r

\* C10: a sendMessage call makes at most two provider requests; the second has no
\* image part; a rejection of the second goes to the error path (idle, the input
\* shown, one stream-error event with the rejection's message if the ask window
\* exists) and no provider request follows.
C10_AtMostOneTextOnlyRetry ==
    [][\A r \in Reqs :
        /\ rq'[r].calls <= 2
        /\ \A m \in Messages_(Returns(sent')) : m.call.calls <= 2
        /\ \A m \in Messages_(ProviderRequests(sent')) :
             (m.by = r /\ rq[r].calls >= 1) =>
                /\ rq[r].calls = 1
                /\ pc[r] = "connect"
                /\ ~HasImagePart(m.messages)
        /\ (pc[r] = "retry" /\ pc'[r] # "retry" /\ input'.kind = "rejected") =>
                /\ ToErrorPath(r)
                /\ Len(StreamErrors(sent')) = IF winAvail THEN 1 ELSE 0
                /\ \A m \in Messages_(StreamErrors(sent')) :
                     /\ m.by = r
                     /\ m.error = IF input'.message = <<>> THEN UnknownError
                                  ELSE input'.message
    ]_vars

\* A call that returned an error after its second provider request was rejected.
C10_Witness ==
    \E m \in Messages_(Returns(sent)) : m.result = "error" /\ m.call.calls = 2

\* C11: when the model resolution of a request yields no model info or no API
\* key, the request ends there having made no provider request, the state is idle
\* with the input shown, the call returns an error and, the ask window existing,
\* exactly one stream-error event, with the configuration message, is sent.
C11_ConfigErrorEndsAttempt ==
    [][\A r \in Reqs :
        (pc[r] = "model" /\ pc'[r] # "model" /\ input'.kind = "noModelInfo") =>
            /\ rq[r].calls = 0
            /\ ToErrorPath(r)
            /\ Len(StreamErrors(sent')) = IF winAvail THEN 1 ELSE 0
            /\ \A m \in Messages_(StreamErrors(sent')) : m.by = r /\ m.error = ConfigError
            /\ winAvail => observed' = state'
    ]_vars

\* A request that ended on the configuration error, the error reported.
C11_Witness ==
    /\ input.kind = "noModelInfo"
    /\ \E r \in Reqs : pc[r] = "done"
    /\ \E m \in Messages_(StreamErrors(sent)) : m.error = ConfigError
    /\ \E m \in Messages_(Returns(sent)) : m.result = "error" /\ m.call.calls = 0

\* C12: a sendMessage call with a prompt that is non-empty after trimming
\* resolves to that prompt, trimmed, whatever the draft; with no such prompt, a
\* non-empty draft whose age is one millisecond less than ten minutes is the
\* effective prompt, and with one whose age is one millisecond more the effective
\* prompt is empty, the question shown is the screen-context label and the
\* request sent is the generic one.
C12_EffectivePromptResolution ==
    [][\A r \in Reqs :
        (pc[r] = "new" /\ pc'[r] = "session" /\ input'.kind = "prompt") =>
            LET typed == Trim(input'.userPrompt)
                age == now - state.voiceDraftTimestamp
                boundary == 10 * 60 * 1000
                effective == rq'[r].effectivePrompt
            IN  /\ typed # <<>> => effective = typed
                /\ (typed = <<>> /\ state.voiceDraft # <<>> /\ age = boundary - 1)
                      => effective = state.voiceDraft
                /\ (typed = <<>> /\ state.voiceDraft # <<>> /\ age = boundary + 1)
                      => /\ effective = <<>>
                         /\ state'.currentQuestion = ScreenContextLabel
                         /\ UserRequest(effective) = GenericRequest
                /\ effective # <<>> =>
                      /\ state'.currentQuestion = effective
                      /\ UserRequest(effective) = effective
    ]_vars

\* A call without a prompt that took a draft one millisecond short of ten minutes old.
C12_Witness ==
    /\ input.kind = "prompt"
    /\ Trim(input.userPrompt) = <<>>
    /\ now - state.voiceDraftTimestamp = VOICE_DRAFT_MAX_AGE_MS - 1
    /\ state.voiceDraft # <<>>
    /\ state.currentQuestion = state.voiceDraft

\* What the claims say a plain toggle does, the window's visibility being `visible`.
PlainToggle(visible) ==
    LET content == state.isLoading \/ state.isStreaming \/ state.currentResponse # <<>> IN
    /\ ~visible =>
          /\ Len(VisibilityRequests(sent')) = 1
          /\ VisibilityRequests(sent')[1].visible
          /\ state'.showTextInput
    /\ (visible /\ content) =>
          /\ state' = [state EXCEPT !.showTextInput = ~state.showTextInput]
          /\ VisibilityRequests(sent') = <<>>
          /\ Len(StateUpdates(sent')) = 1
          /\ StateUpdates(sent')[1].state = state'
    /\ (visible /\ ~content) =>
          /\ Len(VisibilityRequests(sent')) = 1
          /\ ~VisibilityRequests(sent')[1].visible
    /\ state'.isLoading = state.isLoading
    /\ state'.isStreaming = state.isStreaming
    /\ state'.currentQuestion = state.currentQuestion
    /\ state'.currentResponse = state.currentResponse
    /\ state'.voiceDraft = state.voiceDraft
    /\ UNCHANGED <<pc, rq, abortController>>

\* C13: toggleAskButton() requests the surface visible and shows the input when
\* the surface is hidden, only flips showTextInput (no visibility request) when
\* it is visible with content, requests it hidden when it is visible without
\* content, and never changes isLoading, isStreaming, currentQuestion or
\* currentResponse.
C13_PlainToggle ==
    [][(input'.kind = "toggle" /\ ~input'.inputScreenOnly) => PlainToggle(input'.visible)]_vars

\* A toggle that found the window visible and a response streaming, and flipped
\* the input.
C13_Witness ==
    /\ input.kind = "toggle"
    /\ ~input.inputScreenOnly
    /\ input.visible
    /\ state.isStreaming
    /\ state.showTextInput
    /\ StateUpdates(sent) # <<>>

\* The step started a request with effective prompt `prompt`.
StartsRequest(prompt) ==
    \E r \in Reqs :
        /\ pc[r] = "new"
        /\ pc'[r] = "session"
        /\ rq'[r].effectivePrompt = prompt
        /\ state'.isLoading
        /\ state'.currentQuestion = IF prompt # <<>> THEN prompt ELSE ScreenContextLabel
        /\ UserRequest(rq'[r].effectivePrompt) = IF prompt # <<>> THEN prompt ELSE GenericRequest

\* C14 (as stated): toggleAskButton(true) starts the generic request (empty
\* effective prompt) whenever the surface is hidden or the input is shown, and
\* behaves like the plain toggle when the surface is visible and the input hidden.
C14_ScreenOnlySendsGeneric ==
    [][(input'.kind = "toggle" /\ input'.inputScreenOnly) =>
          IF ~input'.visible \/ state.showTextInput
          THEN StartsRequest(<<>>)
          ELSE PlainToggle(input'.visible)
    ]_vars

\* C14 (amended): toggleAskButton(true) calls sendMessage with an empty prompt
\* whenever the surface is hidden or the input is shown: the request started has
\* the voice draft as its prompt if there is a draft not older than ten minutes,
\* and is the generic request otherwise; with the surface visible and the input
\* hidden it behaves like the plain toggle.
C14_ScreenOnlySendsEmptyPrompt ==
    [][(input'.kind = "toggle" /\ input'.inputScreenOnly) =>
          IF ~input'.visible \/ state.showTextInput
          THEN StartsRequest(IF /\ state.voiceDraft # <<>>
                                /\ now - state.voiceDraftTimestamp <= 10 * 60 * 1000
                             THEN state.voiceDraft ELSE <<>>)
          ELSE PlainToggle(input'.visible)
    ]_vars

\* The Ask shortcut pressed with the window visible and the input shown: a
\* request is started.
C14_Witness ==
    /\ input.kind = "toggle"
    /\ input.inputScreenOnly
    /\ input.visible
    /\ state.isLoading
    /\ \E r \in Reqs : pc[r] = "session"
    /\ ProviderRequests(sent) = <<>>
    /\ VisibilityRequests(sent) # <<>>

\* C15: setVoiceDraft with text that is non-empty after trimming changes the
\* voice-draft triple (trimmed text, speaker label or 'Me', current time) and
\* nothing else of the state, whatever the requests in flight have written to
\* it, and broadcasts the state once; with text that is empty after trimming it
\* changes nothing and sends nothing; it never touches a request; and no other
\* step changes the voice-draft triple.
C15_VoiceDraftFrame ==
    [][IF input'.kind = "draft"
       THEN /\ IF Trim(input'.text) # <<>>
               THEN /\ state' = [state EXCEPT
                                    !.voiceDraft = Trim(input'.text),
                                    !.voiceSpeaker = IF input'.speaker = "" THEN "Me"
                                                     ELSE input'.speaker,
                                    !.voiceDraftTimestamp = now]
                    /\ Len(sent') = IF winAvail THEN 1 ELSE 0
                    /\ \A m \in Messages_(sent') : m.ch = "ask:stateUpdate" /\ m.state = state'
               ELSE /\ state' = state
                    /\ sent' = <<>>
            /\ UNCHANGED <<pc, rq, abortController>>
       ELSE /\ state'.voiceDraft = state.voiceDraft
            /\ state'.voiceSpeaker = state.voiceSpeaker
            /\ state'.voiceDraftTimestamp = state.voiceDraftTimestamp
    ]_vars

\* A draft stored while a request is streaming and has text in currentResponse.
C15_Witness ==
    /\ input.kind = "draft"
    /\ \E r \in Reqs : pc[r] = "read" /\ TextOf(r, state.currentResponse)
    /\ state.isStreaming
    /\ state.voiceDraft # <<>>
    /\ StateUpdates(sent) # <<>>

\* C16: the output-token ceiling given to the provider is max(configured, floor)
\* when the configured maximum is a finite positive number and the floor
\* otherwise, the floor being 8192 exactly when the model identifier starts with
\* 'gpt-5' in any letter case and the effort is 'high' or 'xhigh', and 4096
\* otherwise; 'gpt-5-mini' with 'xhigh' and no configured maximum gives 8192,
\* 'gpt-4.1' with 'xhigh' gives 4096.
C16_EffectiveMaxTokens ==
    input.kind = "maxTokens" =>
        LET model == input.model
            effort == input.reasoningEffort
            configured == input.configuredMaxTokens
            family == /\ model.type = "string"
                      /\ Len(model.chars) >= 5
                      /\ ToLowerCase(SubSeq(model.chars, 1, 5)) = <<"g","p","t","-","5">>
            floor == IF family /\ effort.chars \in {<<"h","i","g","h">>, <<"x","h","i","g","h">>} THEN 8192 ELSE 4096
            ceiling == sent[1].maxTokens
        IN  /\ Len(sent) = 1
            /\ (configured.kind = "finite" /\ configured.v > 0) =>
                  /\ ceiling >= configured.v
                  /\ ceiling >= floor
                  /\ ceiling = configured.v \/ ceiling = floor
            /\ ~(configured.kind = "finite" /\ configured.v > 0) => ceiling = floor
            /\ (model = Str(<<"g","p","t","-","5","-","m","i","n","i">>) /\ effort = Str(<<"x","h","i","g","h">>) /\ configured = NaN)
                  => ceiling = 8192
            /\ (model = Str(<<"g","p","t","-","4",".","1">>) /\ effort = Str(<<"x","h","i","g","h">>) /\ configured = NaN)
                  => ceiling = 4096

\* 'GPT-5' with 'xhigh' and a configured maximum under the floor: the floor, 8192.
C16_Witness ==
    /\ input.kind = "maxTokens"
    /\ input.model = Str(<<"G","P","T","-","5">>)
    /\ input.reasoningEffort = Str(<<"x","h","i","g","h">>)
    /\ input.configuredMaxTokens = Num(4097)
    /\ sent[1].maxTokens = 8192

\* The model identifier starts with 'gpt-5' in any letter case.
Gpt5Family(model) ==
    /\ model.type = "string"
    /\ Len(model.chars) >= 5
    /\ ToLowerCase(SubSeq(model.chars, 1, 5)) = <<"g","p","t","-","5">>

\* The token limit a request is built with: the one given, 2048 when none is given.
TokenLimitOf(opts) == IF opts.maxTokens = Undefined THEN Num(2048) ELSE opts.maxTokens

\* A token limit of the data model: a positive integer.
PositiveLimit(limit) == limit.type = "number" /\ limit.kind = "finite" /\ limit.v > 0

\* C17: for a model whose identifier starts with 'gpt-5' in any letter case, and
\* for every temperature and token limit, the request body has no temperature
\* field in either dialect, and the responses-dialect body carries the token
\* limit as max_output_tokens and has neither max_tokens nor
\* max_completion_tokens.
C17_Gpt5RequestBody ==
    (input.kind = "streamChat" /\ Gpt5Family(input.opts.model)) =>
        LET body == sent[1].body
            limit == TokenLimitOf(input.opts)
        IN  /\ Len(sent) = 1
            /\ sent[1].ch = "fetch"
            /\ ~Has(body, "temperature")
            /\ ~input.opts.usePortkey =>
                  /\ ~Has(body, "max_tokens")
                  /\ ~Has(body, "max_completion_tokens")
                  /\ PositiveLimit(limit) =>
                        (Has(body, "max_output_tokens") /\ body.max_output_tokens = limit)

\* 'GPT-5' asked directly with temperature 0.7 and a limit of 2048 tokens.
C17_Witness ==
    /\ input.kind = "streamChat"
    /\ input.opts.model = Str(<<"G","P","T","-","5">>)
    /\ input.opts.temperature = Num(7)
    /\ input.opts.maxTokens = Num(2048)
    /\ ~input.opts.usePortkey
    /\ sent[1].url = ResponsesUrl
    /\ sent[1].body.max_output_tokens = Num(2048)
    /\ ~Has(sent[1].body, "temperature")

\* The token fields of an object.
TokenFields(object) ==
    {key \in {"max_tokens", "max_completion_tokens", "max_output_tokens"} : Has(object, key)}

\* C18: for a model outside the 'gpt-5' family a numeric temperature that is
\* given is in the body, and the responses dialect carries the token limit as
\* max_output_tokens; buildTokenPayload gives max_completion_tokens only for
\* 'gpt-5*' models and max_tokens otherwise, and always max_tokens with legacy
\* forcing; direct access builds a responses-dialect body (input,
\* max_output_tokens) and relay access a chat-completions body (messages) whose
\* token field is max_tokens, never max_completion_tokens.
C18_DialectAndTokenField ==
    /\ input.kind = "streamChat" =>
          LET opts == input.opts
              body == sent[1].body
              limit == TokenLimitOf(opts)
          IN  /\ Len(sent) = 1 /\ sent[1].ch = "fetch"
              /\ (~Gpt5Family(opts.model) /\ opts.temperature.type = "number") =>
                    body.temperature = opts.temperature
              /\ ~opts.usePortkey =>
                    /\ sent[1].url = ResponsesUrl
                    /\ Has(body, "input") /\ ~Has(body, "messages")
                    /\ TokenFields(body) \subseteq {"max_output_tokens"}
                    /\ PositiveLimit(limit) => body.max_output_tokens = limit
              /\ opts.usePortkey =>
                    /\ sent[1].url = ChatCompletionsUrl
                    /\ Has(body, "messages") /\ ~Has(body, "input")
                    /\ TokenFields(body) \subseteq {"max_tokens"}
                    /\ PositiveLimit(limit) => body.max_tokens = limit
    /\ (input.kind = "tokenPayload" /\ PositiveLimit(input.maxTokens)) =>
          LET payload == sent[1].value
              field == IF input.forceLegacyMaxTokens THEN "max_tokens"
                       ELSE IF Gpt5Family(input.model) THEN "max_completion_tokens"
                       ELSE "max_tokens"
          IN  /\ TokenFields(payload) = {field}
              /\ payload[field] = input.maxTokens

\* 'GPT-5' asked through the relay with a limit of 2048 tokens: max_tokens.
C18_Witness ==
    /\ input.kind = "streamChat"
    /\ input.opts.model = Str(<<"G","P","T","-","5">>)
    /\ input.opts.maxTokens = Num(2048)
    /\ input.opts.usePortkey
    /\ sent[1].url = ChatCompletionsUrl
    /\ sent[1].body.max_tokens = Num(2048)
    /\ ~Has(sent[1].body, "max_completion_tokens")

\* The five effort values, as strings.
AllowedEfforts == {Str(e) : e \in REASONING_EFFORT_VALUES}

\* C19: normalizing a reasoning effort twice gives what normalizing it once
\* gives, at the adapter and at the settings service; the result is one of none,
\* low, medium, high, xhigh, or null at the adapter; 'Minimal', 'MINIMAL' and
\* ' minimal ' give 'none', and 'x-high', 'x_high' and 'x high' give 'xhigh'.
C19_NormalizeIdempotent ==
    input.kind = "normalize" =>
        LET result == sent[1].value
            value == input.value
        IN  /\ Len(sent) = 1
            /\ result.adapterTwice = result.adapter
            /\ result.settingTwice = result.setting
            /\ result.adapter \in AllowedEfforts \cup {Null}
            /\ result.setting \in AllowedEfforts
            /\ value \in {Str(<<"M","i","n","i","m","a","l">>), Str(<<"M","I","N","I","M","A","L">>),
                          Str(<<" ","m","i","n","i","m","a","l"," ">>)} =>
                  (result.adapter = Str(EffortNone) /\ result.setting = Str(EffortNone))
            /\ value \in {Str(<<"x","-","h","i","g","h">>), Str(<<"x","_","h","i","g","h">>),
                          Str(<<"x"," ","h","i","g","h">>)} =>
                  (result.adapter = Str(EffortXHigh) /\ result.setting = Str(EffortXHigh))

\* ' minimal ' is normalized: 'none', and 'none' again from 'none'.
C19_Witness ==
    /\ input.kind = "normalize"
    /\ input.value = Str(<<" ","m","i","n","i","m","a","l"," ">>)
    /\ sent[1].value.adapter = Str(EffortNone)
    /\ sent[1].value.adapterTwice = Str(EffortNone)
    /\ sent[1].value.settingTwice = Str(EffortNone)

\* An effort that is recognized: a string that, trimmed and lower-cased, is one
\* of the five values or one of the spellings of 'none' and 'xhigh'.
Recognized(value) ==
    /\ value.type = "string"
    /\ ToLowerCase(Trim(value.chars)) \in
          REASONING_EFFORT_VALUES \cup
          {<<"m","i","n","i","m","a","l">>, <<"x","-","h","i","g","h">>,
           <<"x","_","h","i","g","h">>, <<"x"," ","h","i","g","h">>}

\* C20: a reasoning fragment { reasoning: { effort } } is attached only when the
\* model is of the 'gpt-5' family and the effort normalizes to one of the
\* allowed values; for an unrecognized effort the adapter attaches nothing,
\* while setReasoningEffort and getReasoningEffort give 'medium' for every
\* unrecognized or missing value; for other models no fragment is attached.
C20_ReasoningFragment ==
    /\ input.kind = "reasoning" =>
          LET result == sent[1].value
              attached == Has(result.payload, "reasoning")
          IN  /\ Len(sent) = 1
              /\ attached <=> (Gpt5Family(input.model) /\ Recognized(input.reasoningEffort))
              /\ attached => result.payload.reasoning.effort \in AllowedEfforts
              /\ result.saved \in AllowedEfforts /\ result.read \in AllowedEfforts
              /\ ~Recognized(input.reasoningEffort) =>
                    (result.saved = Str(EffortMedium) /\ result.read = Str(EffortMedium))
    /\ input.kind = "streamChat" =>
          LET attached == Has(sent[1].body, "reasoning")
          IN  /\ attached <=> /\ ~input.opts.usePortkey
                               /\ Gpt5Family(input.opts.model)
                               /\ Recognized(input.opts.reasoningEffort)
              /\ attached => sent[1].body.reasoning.effort \in AllowedEfforts

\* 'gpt-5-mini' with the effort 'ultra': no fragment, and 'medium' is saved.
C20_Witness ==
    /\ input.kind = "reasoning"
    /\ input.model = Str(<<"g","p","t","-","5","-","m","i","n","i">>)
    /\ input.reasoningEffort = Str(<<"u","l","t","r","a">>)
    /\ ~Has(sent[1].value.payload, "reasoning")
    /\ sent[1].value.saved = Str(EffortMedium)
    /\ sent[1].value.read = Str(EffortMedium)

\* The payloads that are no JSON text, and those whose JSON value is a number,
\* a string or a boolean.
NotJson ==
    { Str(<<"{">>), Str(<<"n","u","l">>), Str(<<"{","\"","t","y","p","e","\"",":","\"","x","\"">>), Str(<<"[","D","O","N","E","]"," ">>), Str(<<"t","r","u">>),
      Str(<<"{","\"","a","\""," ","1","}">>), Str(<<"0","1">>) }
NotAnObject == { Str(<<"\"","n","u","l","l","\"">>), Str(<<"0">>), Str(<<"7">>), Str(<<"\"","\"">>), Str(<<"\"","a","\"">>), Str(<<"t","r","u","e">>), Str(<<"f","a","l","s","e">>) }
Dropped == {Undefined, Str(<<>>), Str(<<"n","u","l","l">>), Str(<<"[","D","O","N","E","]">>)} \cup NotJson \cup NotAnObject

SettledOnce ==
    /\ input'.kind = "socketOpen" => (promise = "pending" /\ promise' = "resolved")
    /\ (input'.kind = "socketError" /\ promise = "pending") => promise' = "rejected"
    /\ promise # "pending" => promise' = promise

C23_AliasAlwaysRegistered ==
    input.kind = "registerShortcuts" =>
        /\ Shortcut(ExplicitAlias, ToggleAll) \in registered
        /\ \E s \in registered : s.accelerator = keybinds

\* The cancellation tokens created so far that are not aborted.
LiveTokens == { r \in Reqs : pc[r] # "new" /\ ~rq[r].aborted }

\* C24: at most one cancellation token is live (created and not aborted), and a
\* live token is the one the orchestrator holds: every token sendMessage
\* replaced or closeAskWindow cleared is aborted.
C24_AtMostOneLiveToken ==
    /\ Cardinality(LiveTokens) <= 1
    /\ \A r \in LiveTokens : abortController = r
    /\ abortController # 0 => pc[abortController] # "new"

\* A second sendMessage replaced the token of a first one: the first is aborted
\* with the reason of the replacement, the second is held and live.
C24_Witness ==
    /\ abortController = 2
    /\ LiveTokens = {2}
    /\ rq[1].aborted
    /\ rq[1].reason = "New request received."

\* C25: isStreaming becomes true only in a step that read a chunk of the
\* response stream: a step that read none (the provider call resolving, a read
\* that ends the stream) leaves a request that is not streaming not streaming.
C25_StreamingOnFirstChunk ==
    [][(~state.isStreaming /\ state'.isStreaming) => input'.kind = "chunk"]_vars

\* The complete lines of a stream: the pieces of its whole text that a line feed ends.
CompleteLines(chunks) ==
    LET lines == Split(Join(chunks)) IN SubSeq(lines, 1, Len(lines) - 1)
\* A line that starts with 'data:' and carries parseable JSON, and that JSON.
Parseable(line) == IsDataLine(line) /\ JSONParse(DataOf(line)).ok
PayloadOf(line) == JSONParse(DataOf(line)).value
\* The tokens of the complete lines, in order, '' for a line that is dropped.
LineTokens(chunks) ==
    [ i \in 1..Len(CompleteLines(chunks)) |->
        IF Parseable(CompleteLines(chunks)[i])
        THEN ExtractToken(PayloadOf(CompleteLines(chunks)[i])) ELSE <<>> ]
\* The completed-response snapshots of the complete lines that are not empty.
Snapshots(chunks) ==
    SelectSeq([ i \in 1..Len(CompleteLines(chunks)) |->
                  IF Parseable(CompleteLines(chunks)[i])
                  THEN ExtractCompletedText(PayloadOf(CompleteLines(chunks)[i])) ELSE <<>> ],
              LAMBDA text : text # <<>>)
CarriesErrorEvent(chunks) ==
    \E i \in 1..Len(CompleteLines(chunks)) :
        /\ Parseable(CompleteLines(chunks)[i])
        /\ ExtractError(PayloadOf(CompleteLines(chunks)[i])) # <<>>
\* The response after each token that is not empty.
RECURSIVE Running(_, _)
Running(sofar, tokens) ==
    IF tokens = <<>> THEN <<>>
    ELSE (IF Head(tokens) # <<>> THEN << sofar \o Head(tokens) >> ELSE <<>>)
         \o Running(sofar \o Head(tokens), Tail(tokens))
\* The currentResponse of the state updates sent, in order.
BroadcastTexts(out) ==
    [ i \in 1..Len(StateUpdates(out)) |-> StateUpdates(out)[i].state.currentResponse ]
\* The stream of the last step ended with `final` as its response: one update
\* when streaming starts, one per token that is not empty, one at the end, and
\* the text persisted if it is not empty.
DecodedAs(final) ==
    /\ state.currentResponse = final
    /\ ~state.isStreaming
    /\ BroadcastTexts(sent) = << <<>> >> \o Running(<<>>, LineTokens(input.chunks)) \o << final >>
    /\ RepositoryWrites(sent) =
           IF final # <<>> THEN AddAiMessage("assistant", final, 0) ELSE <<>>
    /\ StreamErrors(sent) = <<>>

\* C26 as stated: for a stream with no error event the final response is the
\* concatenation, in order, of the tokens of its complete parseable data lines.
C26_FinalIsTokens ==
    (input.kind = "stream" /\ ~CarriesErrorEvent(input.chunks))
        => DecodedAs(Join(LineTokens(input.chunks)))

\* C26: for an uncancelled stream with no error event the final response is the
\* concatenation, in order, of the tokens of its complete lines that start with
\* 'data:' and carry parseable JSON, or, when these lines give no token, the
\* first completed-response snapshot among them that is not empty; every other
\* line is dropped and the loop goes on; each token that is not empty is
\* broadcast with the response so far, and the final text is persisted.
C26_FinalIsTokensOrSnapshot ==
    (input.kind = "stream" /\ ~CarriesErrorEvent(input.chunks))
        => DecodedAs(IF Join(LineTokens(input.chunks)) # <<>>
                     THEN Join(LineTokens(input.chunks))
                     ELSE IF Snapshots(input.chunks) # <<>>
                          THEN Head(Snapshots(input.chunks)) ELSE <<>>)

\* The scenario: 'Hel', 'lo' and the end marker give the persisted text 'Hello'.
C26_Witness ==
    /\ input = StreamRead(<<ChunkHel, ChunkLo, ChunkDone>>)
    /\ RepositoryWrites(sent) = AddAiMessage("assistant", <<"H","e","l","l","o">>, 0)
    /\ BroadcastTexts(sent) = << <<>>, <<"H","e","l">>, <<"H","e","l","l","o">>, <<"H","e","l","l","o">> >>

\* The events of a chunk that the loop processes: those before its first error event.
ErrorEvents(chunk) ==
    { i \in 1..Len(chunk) : chunk[i].data /\ chunk[i].type \in {"error", "response.failed"} }
ProcessedEvents(chunk) ==
    IF ErrorEvents(chunk) = {} THEN chunk
    ELSE SubSeq(chunk, 1, (CHOOSE i \in ErrorEvents(chunk) :
                              \A j \in ErrorEvents(chunk) : i <= j) - 1)
\* What the last read of request r processed.
LastEvents(r) == IF input'.kind = "chunk" THEN ProcessedEvents(input'.chunk) ELSE <<>>
\* The incremental tokens request r received up to the end of its stream.
TokensReceived(r) ==
    rq[r].fullResponse
        \o Join([ i \in 1..Len(LastEvents(r)) |->
                    IF LastEvents(r)[i].data THEN Tag(r, LastEvents(r)[i].delta) ELSE <<>> ])
\* The first completed-response snapshot that is not empty, '' if there is none.
SnapshotSeen(r) ==
    LET texts == SelectSeq([ i \in 1..Len(LastEvents(r)) |->
                               IF LastEvents(r)[i].data
                               THEN SnapshotTag(r, Trim(LastEvents(r)[i].outputText))
                               ELSE <<>> ],
                           LAMBDA text : text # <<>>)
    IN  IF rq[r].completedText # <<>> THEN rq[r].completedText
        ELSE IF texts # <<>> THEN Head(texts) ELSE <<>>
\* The text the stream of request r ends with.
Finalized(r) == IF TokensReceived(r) # <<>> THEN TokensReceived(r) ELSE SnapshotSeen(r)

\* C27: when the stream of a request terminates (the reader reports done, the
\* reader was cancelled, a read fails or an error event arrives) isStreaming
\* becomes false and currentResponse becomes the text accumulated from the
\* tokens; the first completed-response snapshot that is not empty is the final
\* and persisted text exactly when no token was received, and it is never
\* joined to token text.
C27_FinalizedToAccumulated ==
    [][\A r \in Reqs : (pc[r] = "read" /\ pc'[r] # "read") =>
          /\ ~state'.isStreaming
          /\ state'.currentResponse = Finalized(r)
          /\ RepositoryWrites(sent') =
                 IF Finalized(r) # <<>> THEN AddAiMessage("assistant", Finalized(r), r)
                 ELSE <<>>
          /\ \/ \A i \in 1..Len(Finalized(r)) : Finalized(r)[i] = r
             \/ /\ TokensReceived(r) = <<>>
                /\ \A i \in 1..Len(Finalized(r)) : Finalized(r)[i] = 0 - r]_vars

\* A stream that delivered tokens and a completed-response snapshot has ended:
\* the final text is the tokens.
C27_Witness ==
    \E r \in Reqs :
        /\ pc[r] = "persist"
        /\ rq[r].completedText # <<>>
        /\ rq[r].fullResponse # <<>>
        /\ \A i \in 1..Len(rq[r].fullResponse) : rq[r].fullResponse[i] = r
        /\ state.currentResponse = rq[r].fullResponse
        /\ ~state.isStreaming

\* The value a function returned in the last step.
ReturnValue == sent[1].value
\* Message `after` is message `before` with its role made 'developer': the same
\* properties in the same order, with the same values but for the role.
RoleRewritten(before, after) ==
    /\ IsObject(after)
    /\ after.class = before.class
    /\ after.items = before.items
    /\ Len(after.fields) = Len(before.fields)
    /\ \A j \in 1..Len(before.fields) :
          /\ after.fields[j].key = before.fields[j].key
          /\ after.fields[j].value =
                 IF before.fields[j].key = RoleKey THEN Str(<<"d","e","v","e","l","o","p","e","r">>)
                 ELSE before.fields[j].value
IsSystemMessage(message) ==
    IsObject(message) /\ Get(message, RoleKey) = Str(<<"s","y","s","t","e","m">>)
IsDeveloperMessage(message) ==
    IsObject(message) /\ Get(message, RoleKey) = Str(<<"d","e","v","e","l","o","p","e","r">>)

\* C28: in the chat-completions dialect the messages sent are the messages
\* given, in their order, with the 'system' messages given the role 'developer'
\* when the model identifier starts with 'gpt-5' (letter case ignored), and are
\* the messages given, unchanged, for any other model; in the responses dialect
\* the item of a message has the role 'developer' exactly when the message has
\* it or is a 'system' message for a gpt-5 model, and the role 'system' exactly
\* when it is a 'system' message for another model.
C28_SystemToDeveloperForGpt5 ==
    /\ (input.kind = "normalizeMessages" /\ IsArray(input.messages)) =>
          /\ IsArray(ReturnValue)
          /\ Len(ReturnValue.items) = Len(input.messages.items)
          /\ \A i \in 1..Len(input.messages.items) :
                IF Gpt5Family(input.model) /\ IsSystemMessage(input.messages.items[i])
                THEN RoleRewritten(input.messages.items[i], ReturnValue.items[i])
                ELSE ReturnValue.items[i] = input.messages.items[i]
    /\ (input.kind = "convert" /\ IsArray(input.messages)) =>
          LET messages == SelectSeq(input.messages.items, IsObject) IN
          /\ Len(ReturnValue.items) = Len(messages)
          /\ \A i \in 1..Len(messages) :
                /\ IsDeveloperMessage(ReturnValue.items[i])
                       <=> \/ IsDeveloperMessage(messages[i])
                           \/ Gpt5Family(input.model) /\ IsSystemMessage(messages[i])
                /\ IsSystemMessage(ReturnValue.items[i])
                       <=> ~Gpt5Family(input.model) /\ IsSystemMessage(messages[i])

\* 'GPT-5' with a system message that has a name, followed by a user message:
\* the first comes back as a developer message with its name, the second as it was.
C28_Witness ==
    /\ input.kind = "normalizeMessages"
    /\ input.model = Str(<<"G","P","T","-","5">>)
    /\ IsArray(input.messages)
    /\ Len(input.messages.items) = 2
    /\ IsSystemMessage(input.messages.items[1])
    /\ Len(input.messages.items[1].fields) = 3
    /\ Get(input.messages.items[2], RoleKey) = Str(<<"u","s","e","r">>)
    /\ IsDeveloperMessage(ReturnValue.items[1])
    /\ Get(ReturnValue.items[1], <<"n","a","m","e">>) = Str(<<"n">>)
    /\ ReturnValue.items[2] = input.messages.items[2]

\* The URL of an image part: image_url when it is a string, else its .url.
ResolvedUrl(part) ==
    IF IsString(Get(part, ImageUrlKey)) THEN Get(part, ImageUrlKey)
    ELSE Get(Get(part, ImageUrlKey), UrlKey)
TaggedText(part) ==
    /\ IsObject(part)
    /\ Get(part, TypeKey) \in { Str(<<"t","e","x","t">>), Str(<<"i","n","p","u","t","_","t","e","x","t">>) }
    /\ IsString(Get(part, TextKey))
TaggedImage(part) ==
    /\ IsObject(part)
    /\ Get(part, TypeKey) \in { Str(<<"i","m","a","g","e","_","u","r","l">>),
                                Str(<<"i","n","p","u","t","_","i","m","a","g","e">>) }
    /\ IsString(ResolvedUrl(part))
    /\ ResolvedUrl(part).chars # <<>>
\* The parts a content normalizes to: Null marks a part that is dropped.
PartOf(part) ==
    IF IsString(part) THEN InputText(part)
    ELSE IF TaggedText(part) THEN InputText(Get(part, TextKey))
    ELSE IF TaggedImage(part) THEN InputImage(ResolvedUrl(part))
    ELSE Null
PartsOf(content) ==
    LET given == IF IsArray(content) THEN content.items ELSE << content >>
    IN  SelectSeq([ i \in 1..Len(given) |-> PartOf(given[i]) ], LAMBDA part : part # Null)

\* C29: in the responses dialect every message object gives one item, in order,
\* whose content is not empty: a string and an object tagged text or input_text
\* give a text part, an object tagged image_url or input_image whose URL
\* resolves (image_url is a string, or has a string .url) gives an image part,
\* anything else is dropped, and a content that gives no part gives one empty
\* text part.
C29_OneItemPerMessage ==
    (input.kind = "convert" /\ IsArray(input.messages)) =>
        LET messages == SelectSeq(input.messages.items, IsObject) IN
        /\ Len(ReturnValue.items) = Len(messages)
        /\ \A i \in 1..Len(messages) :
              LET parts == PartsOf(Get(messages[i], ContentKey)) IN
              /\ Get(ReturnValue.items[i], ContentKey).items # <<>>
              /\ Get(ReturnValue.items[i], ContentKey).items =
                     IF parts = <<>> THEN << InputText(Str(<<>>)) >> ELSE parts

\* The text of a part: its string .text, else its string .text.value, else ''.
PartText(part) ==
    IF IsString(Get(part, TextKey)) THEN Get(part, TextKey).chars
    ELSE Chars(Get(Get(part, TextKey), <<"v","a","l","u","e">>))
\* The text an array output_text joins to: a string part stands for itself.
JoinedOutputText(outputText) ==
    Join([ i \in 1..Len(outputText.items) |->
             IF IsString(outputText.items[i]) THEN outputText.items[i].chars
             ELSE Chars(Get(outputText.items[i], TextKey)) ])
\* The text of the content parts of the items of a structured output array.
StructuredText(output) ==
    LET parts == FlatContent(IF IsArray(output) THEN output.items ELSE <<>>)
    IN  Join([ i \in 1..Len(parts) |-> PartText(parts[i]) ])
\* The text of choices[0].message.content: a string, or an array of parts.
ChoicesText(responseLike) ==
    LET content == Get(Get(First(Get(responseLike, <<"c","h","o","i","c","e","s">>)),
                           <<"m","e","s","s","a","g","e">>), ContentKey)
    IN  IF IsString(content) THEN content.chars
        ELSE IF IsArray(content)
        THEN Join([ i \in 1..Len(content.items) |->
                      IF IsString(content.items[i]) THEN content.items[i].chars
                      ELSE IF IsString(Get(content.items[i], TextKey))
                           THEN Get(content.items[i], TextKey).chars
                      ELSE IF IsString(Get(content.items[i], <<"d","e","l","t","a">>))
                           THEN Get(content.items[i], <<"d","e","l","t","a">>).chars
                      ELSE PartText(content.items[i]) ])
        ELSE <<>>
OutputTextOf(responseLike) == Get(responseLike, <<"o","u","t","p","u","t","_","t","e","x","t">>)
OutputOf(responseLike) == Get(responseLike, <<"o","u","t","p","u","t">>)

\* C30: what the response decoder returns is a string, trimmed, chosen in this
\* order: a string output_text; else an array output_text, joined; else the text
\* of the content parts of the structured output array, if there is any; else
\* the text of choices[0].message.content; and '' for null and for what is not
\* an object.
C30_DecodingPriority ==
    input.kind = "extract" =>
        /\ IsString(ReturnValue)
        /\ ReturnValue.chars = Trim(ReturnValue.chars)
        /\ ReturnValue.chars =
              IF ~IsObject(input.responseLike) THEN <<>>
              ELSE IF IsString(OutputTextOf(input.responseLike))
                   THEN Trim(OutputTextOf(input.responseLike).chars)
              ELSE IF IsArray(OutputTextOf(input.responseLike))
                   THEN Trim(JoinedOutputText(OutputTextOf(input.responseLike)))
              ELSE IF Trim(StructuredText(OutputOf(input.responseLike))) # <<>>
                   THEN Trim(StructuredText(OutputOf(input.responseLike)))
              ELSE Trim(ChoicesText(input.responseLike))

\* A response with no output_text, a structured output that holds only a blank
\* and a chat-completions message: the message is what is returned.
C30_Witness ==
    /\ input.kind = "extract"
    /\ IsObject(input.responseLike)
    /\ OutputTextOf(input.responseLike) = Undefined
    /\ StructuredText(OutputOf(input.responseLike)) = <<" ">>
    /\ ChoicesText(input.responseLike) = <<" ","c"," ">>
    /\ ReturnValue = Str(<<"c">>)

\* The shapes a stream event is recognized by, highest priority first: each is
\* the text the shape carries, or Undefined when the payload has not that shape.
TypeIs(eventPayload, name) == Get(eventPayload, TypeKey) = Str(name)
StringOr(v) == IF IsString(v) THEN v ELSE Undefined
TokenShapes(eventPayload) ==
    LET delta == Get(eventPayload, <<"d","e","l","t","a">>)
        content == Get(Get(First(Get(eventPayload, <<"c","h","o","i","c","e","s">>)), <<"d","e","l","t","a">>), <<"c","o","n","t","e","n","t">>)
    IN  << StringOr(delta),
           IF TypeIs(eventPayload, <<"r","e","s","p","o","n","s","e",".","o","u","t","p","u","t","_","t","e","x","t",".","d","e","l","t","a">>)
           THEN StringOr(delta) ELSE Undefined,
           IF TypeIs(eventPayload, <<"r","e","s","p","o","n","s","e",".","c","o","n","t","e","n","t","_","p","a","r","t",".","a","d","d","e","d">>)
           THEN StringOr(Get(Get(eventPayload, <<"p","a","r","t">>), TextKey)) ELSE Undefined,
           IF TypeIs(eventPayload, <<"r","e","s","p","o","n","s","e",".","c","o","n","t","e","n","t","_","p","a","r","t",".","d","e","l","t","a">>)
           THEN (IF IsString(delta) THEN delta ELSE StringOr(Get(delta, TextKey)))
           ELSE Undefined,
           IF IsString(content) THEN content
           ELSE IF IsArray(content)
                THEN Str(Join([i \in 1..Len(content.items) |-> TokenPart(content.items[i])]))
                ELSE Undefined >>
\* The text of the first shape the payload has, '' when it has none of them or
\* is no object at all.
TokenByPriority(eventPayload) ==
    LET shapes == SelectSeq(TokenShapes(eventPayload), LAMBDA v : v # Undefined)
    IN  IF IsObject(eventPayload) /\ shapes # <<>> THEN Head(shapes).chars ELSE <<>>
PriorityTokens(chunks) ==
    [ i \in 1..Len(CompleteLines(chunks)) |->
        IF Parseable(CompleteLines(chunks)[i])
        THEN TokenByPriority(PayloadOf(CompleteLines(chunks)[i])) ELSE <<>> ]
LastPayload(chunks) == PayloadOf(CompleteLines(chunks)[Len(CompleteLines(chunks))])

\* C31: the token of a stream event is the text of the first shape it has, in
\* the order top-level string delta, 'response.output_text.delta' delta,
\* 'response.content_part.added' part.text, 'response.content_part.delta' delta
\* (a string or its text), choices[0].delta.content (a string, or the parts of
\* an array concatenated); a payload of no such shape, null and non-objects
\* included, gives the empty token: nothing is thrown, the accumulated response
\* stays as it was and no state update is broadcast for it.
C31_TokenByPriority ==
    input.kind = "stream" =>
        /\ BroadcastTexts(sent) =
               << <<>> >> \o Running(<<>>, PriorityTokens(input.chunks))
                          \o << Join(PriorityTokens(input.chunks)) >>
        /\ state.currentResponse = Join(PriorityTokens(input.chunks))
        /\ StreamErrors(sent) = <<>>

\* The scenario: after 'Hel', an event with a top-level delta 'a', a part text
\* 'b' and a choices content 'c' gives 'Hela'.
C31_Witness ==
    /\ input.kind = "stream"
    /\ Len(input.chunks) = 2
    /\ IsString(Get(LastPayload(input.chunks), <<"d","e","l","t","a">>))
    /\ IsString(Get(Get(LastPayload(input.chunks), <<"p","a","r","t">>), TextKey))
    /\ state.currentResponse = <<"H","e","l","a">>
    /\ BroadcastTexts(sent) = << <<>>, <<"H","e","l">>, <<"H","e","l","a">>, <<"H","e","l","a">> >>

\* The scenario: after 'Hel', the payload null gives no token and no update.
C31_WitnessEmpty ==
    /\ input.kind = "stream"
    /\ Len(input.chunks) = 2
    /\ LastPayload(input.chunks) = Null
    /\ BroadcastTexts(sent) = << <<>>, <<"H","e","l">>, <<"H","e","l">> >>

\* What a step put on the socket, what it handed to callbacks.onmessage.
OnSocket(out) == SelectSeq(out, LAMBDA call : call.ch \in {"ws.send", "ws.ping", "ws.close"})
AudioFrames(out) ==
    SelectSeq(out, LAMBDA call : call.ch = "ws.send" /\ call.type = "input_audio_buffer.append")
MessageCalls(out) == SelectSeq(out, LAMBDA call : call.ch = "onmessage")

\* C32: the frame put on the socket when it opens is the session configuration,
\* and nothing is put on the socket before it: every other step that writes to
\* the socket belongs to the session object, which exists only once that step
\* was taken; sendRealtimeInput and keepAlive send nothing unless the socket is
\* open; close() on an open socket sends { type: 'session.close' }, detaches the
\* message and error handlers and closes the socket with code 1000, and from
\* then on no frame reaches callbacks.onmessage and no audio frame is sent.
C32_SessionLifecycle ==
    [][/\ input'.kind = "socketOpen" =>
              (promise = "pending" /\ sent' = WsSend("transcription_session.update"))
       /\ (promise' = "resolved" /\ promise # "resolved") => input'.kind = "socketOpen"
       /\ (OnSocket(sent') # <<>> /\ input'.kind # "socketOpen") =>
              (promise = "resolved" /\ ws.readyState = "OPEN")
       /\ (input'.kind \in {"sendRealtimeInput", "keepAlive"} /\ ws.readyState # "OPEN") =>
              sent' = <<>>
       /\ (input'.kind = "sendRealtimeInput" /\ ws.readyState = "OPEN") =>
              sent' = WsSend("input_audio_buffer.append")
       /\ (input'.kind = "sessionClose" /\ ws.readyState = "OPEN") =>
              /\ sent' = WsSend("session.close") \o WsClose(1000)
              /\ ~ws'.handlers
              /\ ws'.readyState = "CLOSING"
       /\ ~ws.handlers =>
              /\ ~ws'.handlers
              /\ ws'.readyState # "OPEN"
              /\ MessageCalls(sent') = <<>>
              /\ AudioFrames(sent') = <<>>]_vars

\* A frame that would be delivered arrives after close(): nothing is called.
C32_Witness ==
    /\ input.kind = "frame"
    /\ ~ws.handlers
    /\ Delivered(input.data) # <<>>
    /\ sent = <<>>

\* What validateApiKey was given, what it asked of the network, what it gave.
KeyGiven == input.key
AnswerGiven == input.answer
Requests == SelectSeq(sent, LAMBDA call : call.ch = "fetch")
Outcome == sent[Len(sent)].value
\* A non-empty string that starts with 'sk-'.
WellFormedKey(key) ==
    /\ key.type = "string"
    /\ Len(key.chars) >= 3
    /\ <<key.chars[1], key.chars[2], key.chars[3]>> = <<"s","k","-">>
\* The message of the provider in the body of an answer, when it carries one.
ProviderMessage(answer) ==
    Get(Get(JSONParse(answer.body).value, <<"e","r","r","o","r">>), <<"m","e","s","s","a","g","e">>)
CarriesMessage(answer) ==
    /\ answer.kind = "response"
    /\ JSONParse(answer.body).ok
    /\ IsObject(JSONParse(answer.body).value)
    /\ IsObject(Get(JSONParse(answer.body).value, <<"e","r","r","o","r">>))
    /\ IsString(ProviderMessage(answer))
    /\ ProviderMessage(answer).chars # <<>>

\* C33: validateApiKey checks the format of the key (a non-empty string that
\* starts with 'sk-') before any network call: a key that fails gets
\* { success: false } with the format error and no request is made; for a key
\* that passes, one request is made to the models endpoint and success is true
\* exactly when it answers OK; the message of the provider is the error when
\* the answer carries one; a result object is returned in every case, a
\* network failure included.
C33_ValidateApiKey ==
    input.kind = "validateApiKey" =>
        /\ sent[Len(sent)].ch = "result"
        /\ IsObject(Outcome)
        /\ Get(Outcome, <<"s","u","c","c","e","s","s">>) \in {True, False}
        /\ ~WellFormedKey(KeyGiven) =>
              /\ Requests = <<>>
              /\ Outcome = Failure(Str(<<"I","n","v","a","l","i","d"," ","O","p","e","n","A","I"," ","A","P","I"," ","k","e","y"," ","f","o","r","m","a","t",".">>))
        /\ WellFormedKey(KeyGiven) =>
              /\ Requests = FetchModels(KeyGiven)
              /\ sent = Requests \o Result(Outcome)
              /\ Get(Outcome, <<"s","u","c","c","e","s","s">>) = True
                     <=> (AnswerGiven.kind = "response" /\ AnswerGiven.status \in 200..299)
              /\ (Get(Outcome, <<"s","u","c","c","e","s","s">>) = False) => Truthy(Get(Outcome, <<"e","r","r","o","r">>))
              /\ (CarriesMessage(AnswerGiven) /\ AnswerGiven.status \notin 200..299) =>
                     Outcome = Failure(ProviderMessage(AnswerGiven))
              /\ AnswerGiven = NetworkFailure =>
                     Outcome = Failure(Str(<<"A"," ","n","e","t","w","o","r","k"," ","e","r","r","o","r"," ","o","c","c","u","r","r","e","d"," ","d","u","r","i","n","g"," ","v","a","l","i","d","a","t","i","o","n",".">>))

\* The endpoint answers 401 with the message 'bad key': that message is the error.
C33_Witness ==
    /\ input.kind = "validateApiKey"
    /\ KeyGiven = Str(<<"s","k","-","a","b","c">>)
    /\ AnswerGiven = HttpResponse(401, <<"{","\"","e","r","r","o","r","\"",":","{","\"","m","e","s","s","a","g","e","\"",":","\"","b","a","d"," ","k","e","y","\"","}","}">>)
    /\ sent = FetchModels(KeyGiven) \o Result(Failure(Str(<<"b","a","d"," ","k","e","y">>)))

\* C34: once a request is cancelled (a newer sendMessage superseded it, or
\* closeAskWindow ended it), none of its remaining steps, entering streaming,
\* finalization and error handling included, writes to the session state: the
\* state is that of the newest request, or the reset state after a close.
C34_CancelledRequestIsSilent ==
    [][\A r \in Reqs :
          (rq[r].aborted /\ <<pc[r], rq[r]>> # <<pc'[r], rq'[r]>>) => state' = state]_vars

\* The toggleAllWindowsVisibility calls made so far, and the last of them.
Called == { c \in Calls : toggles[c].pc # "new" }
LastCalled == CHOOSE c \in Called : \A b \in Called : b <= c

\* C35: the targets of successive 'window:requestToggleAllWindowsVisibility'
\* requests alternate, and once every toggleAllWindowsVisibility call made has
\* completed the flag allWindowVisibility is the target of the last request,
\* also when a call starts while an earlier one awaits the registration.
C35_TogglesStayConsistent ==
    /\ \A c \in Called :
          (c - 1) \in Called => toggles[c].targetVisibility # toggles[c - 1].targetVisibility
    /\ (Called # {} /\ \A c \in Called : toggles[c].pc = "done") =>
          allWindowVisibility = toggles[LastCalled].targetVisibility

\* The stream of the last step read in one piece by a request that starts from
\* the initial state.
ReadWhole == ProcessStreamText(LoadingState(InitialState, <<>>), <<Join(input.chunks)>>)

\* C36: what is decoded does not depend on how the reader cuts the stream into
\* chunks, cuts inside a line and inside a JSON payload included: the same text
\* gives the same sequence of broadcasts and messages, the same final state and
\* the same persisted answer as when it is read in one piece; and a last line
\* that no line feed ends when the stream ends is not decoded.
C36_PartitionIndependent ==
    (input.kind = "stream" /\ Join(input.chunks) \in StreamTexts) =>
        /\ sent = ReadWhole.out
        /\ state = ReadWhole.st
        /\ BroadcastTexts(sent) =
               << <<>> >> \o Running(<<>>, LineTokens(input.chunks)) \o << state.currentResponse >>
        /\ Join(input.chunks) = TextOpenEnd => state.currentResponse = <<"H","e","l","l","o">>

\* The stream with the open last line cut inside the token of its first line
\* and inside the payload of its last: 'Hello' is decoded, and 'x' is not.
C36_Witness ==
    /\ input.kind = "stream"
    /\ Join(input.chunks) = TextOpenEnd
    /\ Len(input.chunks) = 3
    /\ Len(input.chunks[1]) = 18
    /\ Len(input.chunks[3]) = 5
    /\ state.currentResponse = <<"H","e","l","l","o">>
    /\ RepositoryWrites(sent) = AddAiMessage("assistant", <<"H","e","l","l","o">>, 0)

\* C37: state.isVisible is what the last 'window:requestVisibility' request for
\* the ask window asked for: a step that emits such a request leaves isVisible
\* at the value requested, isVisible changes in no other step, and the step that
\* changes it broadcasts the state with the new value.
C37_VisibleTracksRequests ==
    [][/\ VisibilityRequests(sent') # <<>> =>
              state'.isVisible =
                  VisibilityRequests(sent')[Len(VisibilityRequests(sent'))].visible
       /\ state'.isVisible # state.isVisible =>
              /\ VisibilityRequests(sent') # <<>>
              /\ \E i \in 1..Len(StateUpdates(sent')) :
                    StateUpdates(sent')[i].state.isVisible = state'.isVisible]_vars

\* The timers that will send a notification of an event.
TimersOf(running, event) == {t \in running : t.event = event}

\* C38: at most one timer is pending per event name; a debounced call sends
\* nothing itself, replaces the pending timer of its event by one that carries
\* its own data and is due after the delay, and leaves the timers of the other
\* events alone, so that calls for one event within the delay end in exactly one
\* send, with the data of the last call; a send is made only by a timer that is
\* pending and due (or by a call without debounce), and after cleanup no timer
\* is pending, so nothing that was pending is sent.
C38_DebouncedNotifications ==
    [][/\ \A event \in NotifyEvents : Cardinality(TimersOf(timers', event)) <= 1
       /\ (input'.kind = "notify" /\ input'.debounce > 0) =>
              /\ sent' = <<>>
              /\ \E t \in timers' :
                    /\ TimersOf(timers', input'.event) = {t}
                    /\ t.data = input'.data
                    /\ t.due = now + input'.debounce
              /\ \A event \in NotifyEvents \ {input'.event} :
                    TimersOf(timers', event) = TimersOf(timers, event)
       /\ input'.kind = "timer" =>
              \E t \in timers :
                    /\ t.due <= now
                    /\ t.event = input'.event
                    /\ t.data = input'.data
                    /\ timers' = timers \ {t}
                    /\ \A i \in 1..Len(sent') :
                          /\ sent'[i].event = t.event
                          /\ sent'[i].args = IF t.data = Null THEN <<>> ELSE <<t.data>>
       /\ input'.kind = "cleanup" => (timers' = {} /\ sent' = <<>>)
       /\ sent' # <<>> =>
              (input'.kind = "timer" \/ (input'.kind = "notify" /\ input'.debounce = 0))]_vars

\* A second call for an event within the delay of the first: the timer of the
\* first is gone, and the one pending carries 'b' and is due 300 ms later.
C38_Witness ==
    /\ input.kind = "notify"
    /\ input.data = Str(<<"b">>)
    /\ now = 101
    /\ timers = {Timer(2, input.event, Str(<<"b">>), now + DEBOUNCE_DELAY)}
    /\ pendingNotifications = {Pending(input.event, 2)}

\* What loadKeybinds returned, what it wrote, and the rows it left.
LoadedKeybinds == sent[Len(sent)].value
KeybindWrites == SelectSeq(sent, LAMBDA call : call.ch = "upsertKeybinds")
RowsLeft ==
    IF KeybindWrites = <<>> THEN input.rows
    ELSE [action \in DOMAIN input.rows \cup DOMAIN KeybindWrites[1].keybinds |->
             IF action \in DOMAIN KeybindWrites[1].keybinds
             THEN KeybindWrites[1].keybinds[action] ELSE input.rows[action]]
\* A row that loadKeybinds has no reason to replace.
Kept(rows, action) ==
    /\ action \in DOMAIN rows
    /\ rows[action] # ""
    /\ (action \in DOMAIN GetLegacyDefaultKeybinds => rows[action] # GetLegacyDefaultKeybinds[action])
    /\ ~(action = "toggleVisibility" /\ rows[action] \in {"Ctrl+Alt+Shift+H", "Cmd+Alt+Shift+H"})

\* C39: the map loadKeybinds returns has an accelerator that is not empty for
\* every default action, binds no action to its legacy default, and holds every
\* stored binding that is neither missing, a legacy default nor a retired
\* toggleVisibility accelerator as it was stored; a second loadKeybinds on the
\* rows the first has left returns the same map and saves nothing.
C39_KeybindsNormalForm ==
    input.kind = "loadKeybinds" =>
        /\ \A action \in DefaultActions :
              action \in DOMAIN LoadedKeybinds /\ LoadedKeybinds[action] # ""
        /\ \A action \in DOMAIN GetLegacyDefaultKeybinds :
              LoadedKeybinds[action] # GetLegacyDefaultKeybinds[action]
        /\ \A action \in DOMAIN input.rows :
              Kept(input.rows, action) => LoadedKeybinds[action] = input.rows[action]
        /\ LoadAllKeybinds(RowsLeft).keybinds = LoadedKeybinds
        /\ ~LoadAllKeybinds(RowsLeft).saved

\* Stored: toggleVisibility at its legacy default, nextStep at a binding of the
\* user, toggleListen missing. The first becomes the default, the second stays,
\* the third is filled in, and the map is saved.
C39_Witness ==
    /\ input.kind = "loadKeybinds"
    /\ DOMAIN input.rows = {"toggleVisibility", "nextStep"}
    /\ input.rows["toggleVisibility"] = LegacyToggleVisibility
    /\ input.rows["nextStep"] = "Ctrl+Alt+V"
    /\ LoadedKeybinds["toggleVisibility"] = DefaultToggleVisibility
    /\ LoadedKeybinds["nextStep"] = "Ctrl+Alt+V"
    /\ LoadedKeybinds["toggleListen"] = "Ctrl+Alt+L"
    /\ Len(KeybindWrites) = 1

\* The repository operations the last call ran, and how it settled.
CloudCalls == SelectSeq(sent, LAMBDA call : call.ch = "firebaseRepository")
LocalCalls == SelectSeq(sent, LAMBDA call : call.ch = "sqliteRepository")
Settled == sent[Len(sent)].outcome
\* A user is logged in.
LoggedIn(user) ==
    /\ user.type = "object"
    /\ user \in { Obj(<<Member(<<"i","s","L","o","g","g","e","d","I","n">>, True)>>), Obj(<<Member(<<"i","s","L","o","g","g","e","d","I","n">>, Str(<<"y","e","s">>))>>) }

\* C40: an operation of the preset repository runs the SQLite operation alone
\* when no user is logged in; when one is, it runs the cloud operation first
\* and the SQLite operation exactly when the cloud operation failed, and the
\* caller then gets the SQLite result or the SQLite error, never the error of
\* the cloud.
C40_CloudFirstWithFallback ==
    input.kind = "preset" =>
        /\ sent[Len(sent)].ch = "settled"
        /\ \A i \in 1..(Len(sent) - 1) : sent[i].operation = input.operation
        /\ ~LoggedIn(input.user) =>
              /\ CloudCalls = <<>>
              /\ Len(LocalCalls) = 1
              /\ Settled = input.sqlite
        /\ LoggedIn(input.user) =>
              /\ Len(CloudCalls) = 1
              /\ sent[1].ch = "firebaseRepository"
              /\ Len(LocalCalls) = IF input.firebase.settled = "rejected" THEN 1 ELSE 0
              /\ Settled = IF input.firebase.settled = "rejected"
                           THEN input.sqlite ELSE input.firebase
              /\ Settled.value \notin {"cloud error", "cloud threw"}

\* Logged in, the cloud fails and SQLite fails too: both ran, cloud first, and
\* the caller gets the error of SQLite.
C40_Witness ==
    /\ input.kind = "preset"
    /\ input.operation = "updatePreset"
    /\ LoggedIn(input.user)
    /\ input.firebase = Rejects("cloud error")
    /\ sent = FirebaseOp("updatePreset") \o SqliteOp("updatePreset")
                 \o Settles(Rejects("local error"))

====
